---- MODULE Spec2Model ----
(***************************************************************************)
(* Model of the MaxScale server core: the per-thread pool of persistent    *)
(* backend connections (Server::get_persistent_dcb, CleanupTask), the      *)
(* status bits and the adaptive response-time sample maximum               *)
(* (SERVER::response_time_add).                                            *)
(***************************************************************************)
EXTENDS Integers, Sequences, FiniteSets, TLC

\* ---------------------------------------------------------------- bounds
NumThreads == 2        \* config_threadcount(): number of routing workers
MaxDcb == 2            \* number of backend DCBs that can exist
MaxTime == 2           \* the clock runs from 0 to MaxTime
MaxPoolMax == 2        \* largest persistpoolmax a configuration gives
MaxPersistTime == 1    \* largest persistmaxtime a configuration gives
MaxSamples == 11       \* largest num_samples given to response_time_add
MaxAve == 3            \* largest average given to response_time_add
MaxSampleInit == 12    \* largest sample_max a server starts with
MAX_MONUSER_LEN == 2   \* the longest monitor user that is accepted
MAX_MONPW_LEN == 2     \* the longest monitor password that is accepted
MAX_ADDRESS_LEN == 2   \* the longest address that is stored whole
ConfigChunks == 2      \* the pieces in which a configuration text reaches the disk
MaxVersion == 2        \* the parameters in memory change at most this many times
MAX_VERSION_LEN == 8   \* the longest version string that is stored whole
MaxWords == 2          \* the pieces a version string is put together from
MaxCount == 120        \* the largest count that is converted
MaxStringLen == 3      \* the longest string that is converted
MaxParams == 2         \* the number of parameter names there are
MaxUsersCalls == 2     \* the calls of each kind made on a users table
MaxGarbage == 1        \* the size of the values memory that was never written can hold

NULL == 0
NoThread == -1

Threads == 0 .. (NumThreads - 1)
Dcbs == 1 .. MaxDcb
NoStr == ""
ServerProtocol == "MySQLBackend"

SERVER_RUNNING == "SERVER_RUNNING"
SERVER_MASTER == "SERVER_MASTER"

VARIABLES
    persistent,              \* Server::persistent[id]: head of each thread's list
    m_nextpersistent,        \* DCB::m_nextpersistent
    m_user,                  \* DCB::m_user (NoStr models the NULL pointer)
    m_remote,                \* DCB::m_remote
    m_dcb_errhandle_called,  \* DCB::m_dcb_errhandle_called
    m_persistentstart,       \* DCB::m_persistentstart
    owner,                   \* the worker whose code path uses the DCB, or NoThread
    released_on,             \* the worker that put the DCB into the pool, or NoThread
    m_status,                \* SERVER::m_status, as the set of bits that are set
    master_err_is_logged,    \* SERVER::master_err_is_logged
    persistpoolmax,          \* m_settings.persistpoolmax
    persistmaxtime,          \* m_settings.persistmaxtime
    n_persistent,            \* pool_stats.n_persistent
    n_current,               \* stats().n_current
    now,                     \* time(NULL)
    pc,                      \* position of each worker inside get_persistent_dcb
    dcb,                     \* local variable dcb of get_persistent_dcb
    ret,                     \* the call of get_persistent_dcb that has just returned
    cleanup_pending,         \* workers that still have to run the CleanupTask
    fx,                      \* arguments and entry snapshot of each worker's fetch
    lastop,                  \* the workers' latest operation, if a release or a fetch
    sample_max,              \* m_response_time.sample_max()
    m_ave,                   \* m_response_time.average()
    rt,                      \* the call of response_time_add that has just returned
    status_call,             \* the latest set_status / clear_status call and what it found
    server,                  \* whether Server::server_alloc has produced the Server object
    monuser,                 \* m_settings.monuser, a char array
    monpw,                   \* m_settings.monpw, a char array
    mon_call,                \* the latest server_alloc / set_monitor_* call and its result
    files,                   \* the content of each path of the persist directory
    config,                  \* the version of the server's parameters in memory
    ser,                     \* the position and locals of serialize / create_server_config
    file_call,               \* the latest serialize / create_server_config call and its result
    settings_lock,           \* the thread that holds m_settings.lock, or NoThread
    param_op,                \* the parameter function each thread is in, or "none"
    param_pos,               \* how many steps of that function each thread has done
    mutex,                   \* the thread that holds each of the server's mutexes, or NoThread
    mx_op,                   \* the locking function each thread is in, or "none"
    mx_pos,                  \* how many steps of that function each thread has done
    is_active,               \* SERVER::is_active
    destroyed,               \* whether the registry has destroyed the Server object
    life_call,               \* the latest deactivate or destruction of the registry
    m_version_num,           \* VersionInfo::m_version_num: total, major, minor, patch
    m_version_str,           \* VersionInfo::m_version_str, a char array
    m_type,                  \* VersionInfo::m_type
    ver_call,                \* the latest VersionInfo::set call and what it found
    address,                 \* SERVER::address, a char array
    addr_call,               \* the latest call that was given an address and what it did
    vs_pc,                   \* position of each thread inside VersionInfo::set
    vs_arg,                  \* the arguments of each thread's latest VersionInfo::set call
    rd,                      \* a reader of version_num(), type() and version_string() and what it got
    conv_call,               \* the latest to_string / from_string round of a typed parameter
    m_params,                \* Specification::m_params: the declared parameters by name
    val_call,                \* the latest Specification::validate call and what it returned
    users,                   \* whether users_alloc has returned the USERS table
    users_data,              \* USERS::data: the hashtable, authentication data by user name
    stats,                   \* USERS::stats: n_entries, n_adds, n_deletes, n_fetches
    users_call,              \* the latest users_add / users_delete / users_fetch call and its result
    users_made               \* how many users_add, users_delete and users_fetch calls have been made

poolvars == <<persistent, m_nextpersistent, m_user, m_remote, m_dcb_errhandle_called,
              m_persistentstart, owner, released_on, m_status, master_err_is_logged, persistpoolmax,
              persistmaxtime, n_persistent, n_current, now, pc, dcb, ret,
              cleanup_pending, fx, lastop>>

rtvars == <<sample_max, m_ave, rt>>

statusvars == <<status_call>>

\* The variables outside the pool and the response-time statistics.
monvars == <<server, monuser, monpw, mon_call>>

filevars == <<files, config, ser, file_call>>

paramvars == <<settings_lock, param_op, param_pos>>

mutexvars == <<mutex, mx_op, mx_pos>>

lifevars == <<is_active, destroyed, life_call>>

vervars == <<m_version_num, m_version_str, m_type, ver_call>>

addrvars == <<address, addr_call>>

vsetvars == <<vs_pc, vs_arg, rd>>

convvars == <<conv_call>>

valvars == <<m_params, val_call>>

usersvars == <<users, users_data, stats, users_call, users_made>>

cfgvars == <<statusvars, monvars, filevars, paramvars, mutexvars, lifevars, vervars, addrvars, vsetvars, convvars, valvars, usersvars>>

vars == <<poolvars, rtvars, cfgvars>>

\* ------------------------------------------------------------ list helpers
RECURSIVE Walk(_, _, _)
Walk(nxt, d, fuel) ==
    IF d = NULL \/ fuel = 0 THEN <<>> ELSE <<d>> \o Walk(nxt, nxt[d], fuel - 1)

\* The DCBs linked in thread t's list, in list order.
Bucket(t) == Walk(m_nextpersistent, persistent[t], MaxDcb + 1)

SeqToSet(s) == {s[i] : i \in 1 .. Len(s)}

Linked == UNION {SeqToSet(Bucket(t)) : t \in Threads}

Idle(t) == pc[t] = "idle"

\* The identities connections are opened for, and the requests made.
Idents == {<<"userA", "ipX">>, <<"userB", "ipY">>}
Requests == {<<"userA", "ipX", ServerProtocol>>, <<"userA", "ipY", ServerProtocol>>,
             <<"userA", NoStr, ServerProtocol>>, <<"userA", "ipX", "OtherBackend">>}

\* The workers' latest operation: a release (pooled: the connection went to the
\* pool; erred: it has erred since; idle: the time from the release to the
\* entry of the fetch that follows it), or a fetch that returned a connection
\* (single: it was the only entry the request matched).
NoOp == [kind |-> "none", thread |-> NoThread, user |-> NoStr, ip |-> NoStr, time |-> 0,
         pooled |-> FALSE, idle |-> 0, erred |-> FALSE, single |-> FALSE]

\* The entry a fetch unlinks, as it was stored.
NoFound == [user |-> NoStr, remote |-> NoStr, err |-> FALSE]

\* What a fetch meets on entry: its arguments, whether the server runs, the
\* entry the request should get (expect) and how many it matches (nmatch), the
\* stale entries of the list (stale), the entries the clean evicted (evicted),
\* the iterations of the scan (steps) and the entry unlinked (found).
NoFx == [user |-> NoStr, ip |-> NoStr, protocol |-> NoStr, running |-> FALSE,
         expect |-> NULL, nmatch |-> 0, stale |-> 0, evicted |-> 0, steps |-> 0,
         found |-> NoFound]

NoRet == [kind |-> "none", thread |-> NoThread, fx |-> NoFx, result |-> NULL,
          released_on |-> NoThread, prev |-> NoOp]

\* No call has just returned: ret shows a return to the step that follows it.
Ready == ret = NoRet

\* What a call of get_persistent_dcb by worker t, entered with f after the
\* operation o, leaves behind when it returns d.
Returned(t, f, o, d) ==
    [kind |-> "fetch", thread |-> t, fx |-> f, result |-> d,
     released_on |-> IF d = NULL THEN NoThread ELSE released_on[d],
     prev |-> o]

is_running == SERVER_RUNNING \in m_status

\* ------------------------------------------------------------------ sweep
\* A pooled DCB that a sweep evicts: it has erred while idle, or it has been
\* idle for longer than persistmaxtime.
Stale(d) ==
    \/ m_dcb_errhandle_called[d]
    \/ now - m_persistentstart[d] > persistmaxtime

SweepKept(b) == SelectSeq(Bucket(b), LAMBDA d : ~Stale(d))

SweepEvicted(b) == SeqToSet(Bucket(b)) \ SeqToSet(SweepKept(b))

HeadOf(s) == IF s = <<>> THEN NULL ELSE s[1]

NextIn(s, d) ==
    LET i == CHOOSE j \in 1 .. Len(s) : s[j] = d
    IN  IF i = Len(s) THEN NULL ELSE s[i + 1]

\* The lists, the DCBs' fields and the pool counter as they are now.
PoolNow ==
    [persistent |-> persistent, next |-> m_nextpersistent, user |-> m_user,
     remote |-> m_remote, err |-> m_dcb_errhandle_called, start |-> m_persistentstart,
     released_on |-> released_on, n_persistent |-> n_persistent,
     count |-> 0]

\* DCB::persistent_clean_count(server->persistent[b], b, false): the stale
\* entries of list b are unlinked and closed, the others stay in order; count
\* is the value returned, the number of entries left.
persistent_clean_count(b) ==
    LET kept == SweepKept(b)
        ev == SweepEvicted(b)
    IN  [persistent |-> [persistent EXCEPT ![b] = HeadOf(kept)],
         next |-> [d \in Dcbs |-> IF d \in ev THEN NULL
                                  ELSE IF d \in SeqToSet(kept) THEN NextIn(kept, d)
                                  ELSE m_nextpersistent[d]],
         user |-> [d \in Dcbs |-> IF d \in ev THEN NoStr ELSE m_user[d]],
         remote |-> [d \in Dcbs |-> IF d \in ev THEN NoStr ELSE m_remote[d]],
         err |-> [d \in Dcbs |-> IF d \in ev THEN FALSE ELSE m_dcb_errhandle_called[d]],
         start |-> [d \in Dcbs |-> IF d \in ev THEN 0 ELSE m_persistentstart[d]],
         released_on |-> [d \in Dcbs |-> IF d \in ev THEN NoThread ELSE released_on[d]],
         n_persistent |-> n_persistent - Cardinality(ev),
         count |-> Len(kept)]

\* The pool becomes st.
SetPool(st) ==
    /\ persistent' = st.persistent
    /\ m_nextpersistent' = st.next
    /\ m_user' = st.user
    /\ m_remote' = st.remote
    /\ m_dcb_errhandle_called' = st.err
    /\ m_persistentstart' = st.start
    /\ released_on' = st.released_on
    /\ n_persistent' = st.n_persistent

\* ------------------------------------------------------------------ fetch
\* Mutant: the test of the error flag is inverted.
Matches_errflag(d, user, ip, protocol) ==
    /\ m_user[d] # NoStr
    /\ m_remote[d] # NoStr
    /\ ip # NoStr
    /\ m_dcb_errhandle_called[d]
    /\ user = m_user[d]
    /\ ip = m_remote[d]
    /\ protocol = ServerProtocol

\* Mutant: the peer address is not compared.
Matches_noip(d, user, ip, protocol) ==
    /\ m_user[d] # NoStr
    /\ m_remote[d] # NoStr
    /\ ip # NoStr
    /\ ~m_dcb_errhandle_called[d]
    /\ user = m_user[d]
    /\ protocol = ServerProtocol

\* The condition of the scan loop that selects a pooled DCB for reuse.
Matches(d, user, ip, protocol) ==
    /\ m_user[d] # NoStr
    /\ m_remote[d] # NoStr
    /\ ip # NoStr
    /\ ~m_dcb_errhandle_called[d]
    /\ user = m_user[d]
    /\ ip = m_remote[d]
    /\ protocol = ServerProtocol

\* The while loop of get_persistent_dcb from entry d with predecessor prev:
\* the first matching entry and the entry before it, or NULL at the end of
\* the list. steps counts the iterations.
RECURSIVE ScanLoop(_, _, _, _, _, _, _)
ScanLoop(nxt, d, prev, user, ip, protocol, steps) ==
    IF d = NULL \/ steps > MaxDcb
    THEN [dcb |-> NULL, previous |-> prev, steps |-> steps]
    ELSE IF Matches(d, user, ip, protocol)
    THEN [dcb |-> d, previous |-> prev, steps |-> steps + 1]
    ELSE ScanLoop(nxt, nxt[d], d, user, ip, protocol, steps + 1)

\* The entry a request should get from a list: the first whose stored user and
\* peer address equal the requested ones, on a server of the requested
\* protocol, and that has not erred.
Reusable(d, user, ip, protocol) ==
    /\ m_user[d] = user
    /\ m_remote[d] = ip
    /\ ServerProtocol = protocol
    /\ ~m_dcb_errhandle_called[d]

Wanted(s, user, ip, protocol) == {i \in 1 .. Len(s) : Reusable(s[i], user, ip, protocol)}

\* Mutant: the list is cleaned only if the server is running.
FetchCleans_running(b) == persistent[b] # NULL /\ is_running

\* Whether get_persistent_dcb cleans list b: the first two operands of the
\* condition of its if statement.
FetchCleans(b) == persistent[b] # NULL

\* Mutant: the server's state is not checked.
FetchCond_norun(b, st) ==
    /\ persistent[b] # NULL
    /\ st.count # 0
    /\ st.persistent[b] # NULL

\* The condition of the if statement of get_persistent_dcb, st being the pool
\* after the clean.
FetchCond(b, st) ==
    /\ persistent[b] # NULL
    /\ st.count # 0
    /\ st.persistent[b] # NULL
    /\ is_running

\* Mutant: the entry is returned but stays linked.
Unlink_keep(st, b, sc) == [st EXCEPT !.user = [st.user EXCEPT ![sc.dcb] = NoStr]]

\* Mutant: the entry before the unlinked one is linked to itself.
Unlink_selfloop(st, b, sc) ==
    [st EXCEPT
       !.persistent = IF sc.previous = NULL
                      THEN [st.persistent EXCEPT ![b] = st.next[sc.dcb]]
                      ELSE st.persistent,
       !.next = IF sc.previous = NULL
                THEN st.next
                ELSE [st.next EXCEPT ![sc.previous] = sc.previous],
       !.user = [st.user EXCEPT ![sc.dcb] = NoStr]]

\* Mutant: the entries after the unlinked one leave the list with it.
Unlink_dropnext(st, b, sc) ==
    [st EXCEPT
       !.persistent = IF sc.previous = NULL
                      THEN [st.persistent EXCEPT ![b] = NULL]
                      ELSE st.persistent,
       !.next = IF sc.previous = NULL
                THEN st.next
                ELSE [st.next EXCEPT ![sc.previous] = NULL],
       !.user = [st.user EXCEPT ![sc.dcb] = NoStr]]

\* The pool st with the entry sc.dcb of list b unlinked and its user freed.
Unlink(st, b, sc) ==
    [st EXCEPT
       !.persistent = IF sc.previous = NULL
                      THEN [st.persistent EXCEPT ![b] = st.next[sc.dcb]]
                      ELSE st.persistent,
       !.next = IF sc.previous = NULL
                THEN st.next
                ELSE [st.next EXCEPT ![sc.previous] = st.next[sc.dcb]],
       !.user = [st.user EXCEPT ![sc.dcb] = NoStr]]

\* Server::get_persistent_dcb(user, ip, protocol, id) run by worker t with
\* id = b, up to the unlinking of the matching entry: the condition of the if
\* statement, evaluated left to right, then the scan of the list.
FetchEnter(t, b, user, ip, protocol) ==
    /\ Ready
    /\ UNCHANGED <<rtvars, cfgvars>>
    /\ Idle(t)
    /\ LET st == IF FetchCleans(b) THEN persistent_clean_count(b) ELSE PoolNow
           sc == IF FetchCond(b, st)
                 THEN ScanLoop(st.next, st.persistent[b], NULL, user, ip, protocol, 0)
                 ELSE [dcb |-> NULL, previous |-> NULL, steps |-> 0]
           after == Walk(st.next, st.persistent[b], MaxDcb + 1)
           wanted == Wanted(after, user, ip, protocol)
           f == [user |-> user, ip |-> ip, protocol |-> protocol,
                 running |-> is_running,
                 expect |-> IF wanted = {} THEN NULL
                            ELSE after[CHOOSE i \in wanted : \A j \in wanted : i <= j],
                 nmatch |-> Cardinality(wanted),
                 stale |-> Cardinality({d \in SeqToSet(Bucket(b)) : Stale(d)}),
                 evicted |-> n_persistent - st.n_persistent,
                 steps |-> sc.steps,
                 found |-> IF sc.dcb = NULL THEN NoFound
                           ELSE [user |-> m_user[sc.dcb], remote |-> m_remote[sc.dcb],
                                 err |-> m_dcb_errhandle_called[sc.dcb]]]
           o == IF lastop.thread # t THEN NoOp
                ELSE [lastop EXCEPT !.idle = now - lastop.time, !.time = 0]
       IN  IF sc.dcb # NULL
           THEN /\ SetPool(Unlink(st, b, sc))
                /\ pc' = [pc EXCEPT ![t] = "dec"]
                /\ dcb' = [dcb EXCEPT ![t] = sc.dcb]
                /\ fx' = [fx EXCEPT ![t] = f]
                /\ ret' = NoRet
                /\ lastop' = o
           ELSE /\ SetPool(st)
                /\ ret' = Returned(t, f, o, NULL)
                /\ lastop' = NoOp
                /\ UNCHANGED <<pc, dcb, fx>>
    /\ UNCHANGED <<owner, m_status, master_err_is_logged, persistpoolmax,
                   persistmaxtime, n_current, now, cleanup_pending>>

\* Mutant: the list of worker 0 is used whatever the id.
FetchStart_bucket0(t, user, ip, protocol) == FetchEnter(t, 0, user, ip, protocol)

FetchStart(t, user, ip, protocol) == FetchEnter(t, t, user, ip, protocol)

\* Mutant: the pool count is not lowered.
FetchDec_skip(t) ==
    /\ Ready
    /\ UNCHANGED <<rtvars, cfgvars>>
    /\ pc[t] = "dec"
    /\ pc' = [pc EXCEPT ![t] = "inc"]
    /\ ret' = NoRet
    /\ UNCHANGED <<persistent, m_nextpersistent, m_user, m_remote, m_dcb_errhandle_called,
                   m_persistentstart, owner, released_on, m_status, master_err_is_logged,
                   persistpoolmax, persistmaxtime, n_persistent, n_current, now, dcb,
                   cleanup_pending, fx, lastop>>

\* mxb::atomic::add(&server->pool_stats.n_persistent, -1)
FetchDec(t) ==
    /\ Ready
    /\ UNCHANGED <<rtvars, cfgvars>>
    /\ pc[t] = "dec"
    /\ n_persistent' = n_persistent - 1
    /\ pc' = [pc EXCEPT ![t] = "inc"]
    /\ ret' = NoRet
    /\ UNCHANGED <<persistent, m_nextpersistent, m_user, m_remote, m_dcb_errhandle_called,
                   m_persistentstart, owner, released_on, m_status, master_err_is_logged,
                   persistpoolmax, persistmaxtime, n_current, now, dcb,
                   cleanup_pending, fx, lastop>>

\* mxb::atomic::add(&server->stats().n_current, 1) and return dcb: the caller
\* now uses the DCB.
FetchInc(t) ==
    /\ Ready
    /\ UNCHANGED <<rtvars, cfgvars>>
    /\ pc[t] = "inc"
    /\ n_current' = n_current + 1
    /\ pc' = [pc EXCEPT ![t] = "idle"]
    /\ ret' = Returned(t, fx[t], IF lastop.thread = t THEN lastop ELSE NoOp, dcb[t])
    /\ owner' = [owner EXCEPT ![dcb[t]] = t]
    /\ released_on' = [released_on EXCEPT ![dcb[t]] = NoThread]
    /\ dcb' = [dcb EXCEPT ![t] = NULL]
    /\ fx' = [fx EXCEPT ![t] = NoFx]
    /\ lastop' = [NoOp EXCEPT !.kind = "fetch", !.thread = t, !.user = fx[t].user,
                               !.ip = fx[t].ip, !.single = (fx[t].nmatch = 1)]
    /\ UNCHANGED <<persistent, m_nextpersistent, m_user, m_remote, m_dcb_errhandle_called,
                   m_persistentstart, m_status, master_err_is_logged,
                   persistpoolmax, persistmaxtime, n_persistent, now, cleanup_pending>>

\* ------------------------------------------------- the users of the pool
InTransit(d) == \E t \in Threads : pc[t] \in {"dec", "inc"} /\ dcb[t] = d

\* A DCB that is closed: neither in use nor pooled nor being handed out.
Closed(d) == owner[d] = NoThread /\ d \notin Linked /\ ~InTransit(d)

\* A caller that got no pooled connection opens a fresh backend connection.
Open(t, d) ==
    /\ Ready
    /\ UNCHANGED <<rtvars, cfgvars>>
    /\ Idle(t)
    /\ Closed(d)
    /\ \A e \in Dcbs : Closed(e) => d <= e
    /\ owner' = [owner EXCEPT ![d] = t]
    /\ n_current' = n_current + 1
    /\ lastop' = NoOp
    /\ ret' = NoRet
    /\ UNCHANGED <<persistent, m_nextpersistent, m_user, m_remote, m_dcb_errhandle_called,
                   m_persistentstart, released_on, m_status, master_err_is_logged,
                   persistpoolmax, persistmaxtime, n_persistent, now, pc, dcb,
                   cleanup_pending, fx>>

\* Whether the pool settings allow a released connection to be kept.
PoolAllows == persistpoolmax > 0 /\ persistmaxtime > 0 /\ n_persistent < persistpoolmax

\* release(connection, thread_id): the connection used on behalf of (user, ip)
\* goes to the head of the calling worker's list if the settings allow it, and
\* is closed otherwise.
Release(t, d, user, ip) ==
    /\ Ready
    /\ UNCHANGED <<rtvars, cfgvars>>
    /\ Idle(t)
    /\ owner[d] = t
    /\ owner' = [owner EXCEPT ![d] = NoThread]
    /\ n_current' = n_current - 1
    /\ IF PoolAllows
       THEN /\ persistent' = [persistent EXCEPT ![t] = d]
            /\ m_nextpersistent' = [m_nextpersistent EXCEPT ![d] = persistent[t]]
            /\ m_user' = [m_user EXCEPT ![d] = user]
            /\ m_remote' = [m_remote EXCEPT ![d] = ip]
            /\ m_persistentstart' = [m_persistentstart EXCEPT ![d] = now]
            /\ released_on' = [released_on EXCEPT ![d] = t]
            /\ n_persistent' = n_persistent + 1
       ELSE /\ m_nextpersistent' = [m_nextpersistent EXCEPT ![d] = NULL]
            /\ m_user' = [m_user EXCEPT ![d] = NoStr]
            /\ m_remote' = [m_remote EXCEPT ![d] = NoStr]
            /\ m_persistentstart' = [m_persistentstart EXCEPT ![d] = 0]
            /\ released_on' = [released_on EXCEPT ![d] = NoThread]
            /\ UNCHANGED <<persistent, n_persistent>>
    /\ m_dcb_errhandle_called' = [m_dcb_errhandle_called EXCEPT ![d] = FALSE]
    /\ lastop' = [NoOp EXCEPT !.kind = "release", !.thread = t, !.user = user,
                              !.ip = ip, !.time = now, !.pooled = PoolAllows]
    /\ ret' = NoRet
    /\ UNCHANGED <<m_status, master_err_is_logged, persistpoolmax, persistmaxtime, now,
                   pc, dcb, cleanup_pending, fx>>

\* A pooled connection errs while idle: its error handler runs on the worker
\* that owns the list, between that worker's operations.
ErrHandle(d) ==
    /\ Ready
    /\ UNCHANGED <<rtvars, cfgvars>>
    /\ d \in Linked
    /\ ~m_dcb_errhandle_called[d]
    /\ \A t \in Threads : d \in SeqToSet(Bucket(t)) => Idle(t)
    /\ m_dcb_errhandle_called' = [m_dcb_errhandle_called EXCEPT ![d] = TRUE]
    /\ lastop' = IF lastop.pooled /\ persistent[lastop.thread] = d
                 THEN [lastop EXCEPT !.erred = TRUE] ELSE lastop
    /\ ret' = NoRet
    /\ UNCHANGED <<persistent, m_nextpersistent, m_user, m_remote, m_persistentstart,
                   owner, released_on, m_status, master_err_is_logged, persistpoolmax,
                   persistmaxtime, n_persistent, n_current, now, pc, dcb,
                   cleanup_pending, fx>>

Tick ==
    /\ Ready
    /\ UNCHANGED <<rtvars, cfgvars>>
    /\ now < MaxTime
    /\ now' = now + 1
    /\ ret' = NoRet
    /\ UNCHANGED <<persistent, m_nextpersistent, m_user, m_remote, m_dcb_errhandle_called,
                   m_persistentstart, owner, released_on, m_status, master_err_is_logged,
                   persistpoolmax, persistmaxtime, n_persistent, n_current, pc, dcb,
                   cleanup_pending, fx, lastop>>

\* ------------------------------------------------------- broadcast sweep
\* Mutant: the task returns without cleaning the list.
CleanupTaskRun_nosweep(t, b) ==
    /\ Ready
    /\ UNCHANGED <<rtvars, cfgvars>>
    /\ t \in cleanup_pending
    /\ Idle(t)
    /\ SetPool(PoolNow)
    /\ cleanup_pending' = cleanup_pending \ {t}
    /\ lastop' = NoOp
    /\ ret' = [NoRet EXCEPT !.kind = "cleanup", !.thread = t]
    /\ UNCHANGED <<owner, m_status, master_err_is_logged, persistpoolmax, persistmaxtime,
                   n_current, now, pc, dcb, fx>>

\* CleanupTask::execute on worker t with thread_id b.
CleanupTaskRun(t, b) ==
    /\ Ready
    /\ UNCHANGED <<rtvars, cfgvars>>
    /\ t \in cleanup_pending
    /\ Idle(t)
    /\ SetPool(persistent_clean_count(b))
    /\ cleanup_pending' = cleanup_pending \ {t}
    /\ lastop' = NoOp
    /\ ret' = [NoRet EXCEPT !.kind = "cleanup", !.thread = t,
                            !.fx.evicted = n_persistent - persistent_clean_count(b).n_persistent]
    /\ UNCHANGED <<owner, m_status, master_err_is_logged, persistpoolmax, persistmaxtime,
                   n_current, now, pc, dcb, fx>>

\* Mutant: the task cleans the list of the next worker.
CleanupTaskExecute_next(t) == CleanupTaskRun(t, (t + 1) % NumThreads)

\* Mutant: the task cleans the list of worker 0 on every worker.
CleanupTaskExecute_list0(t) == CleanupTaskRun(t, 0)

CleanupTaskExecute(t) == CleanupTaskRun(t, t)

\* cleanup_persistent_connections: RoutingWorker::execute_concurrently(task),
\* called by print_to_dcb when persistpoolmax is set.
cleanup_persistent_connections ==
    /\ Ready
    /\ UNCHANGED <<rtvars, cfgvars>>
    /\ persistpoolmax # 0
    /\ cleanup_pending = {}
    /\ cleanup_pending' = Threads
    /\ ret' = NoRet
    /\ UNCHANGED <<persistent, m_nextpersistent, m_user, m_remote, m_dcb_errhandle_called,
                   m_persistentstart, owner, released_on, m_status, master_err_is_logged,
                   persistpoolmax, persistmaxtime, n_persistent, n_current, now, pc, dcb,
                   fx, lastop>>

\* The caller takes what get_persistent_dcb returned.
Resume ==
    /\ ret # NoRet
    /\ UNCHANGED <<rtvars, cfgvars>>
    /\ ret' = NoRet
    /\ UNCHANGED <<persistent, m_nextpersistent, m_user, m_remote, m_dcb_errhandle_called,
                   m_persistentstart, owner, released_on, m_status, master_err_is_logged,
                   persistpoolmax, persistmaxtime, n_persistent, n_current, now, pc, dcb,
                   cleanup_pending, fx, lastop>>

\* ----------------------------------------------------------------- status
is_master == SERVER_MASTER \in m_status

\* SERVER::set_status(bit)
set_status(bit) ==
    /\ m_status' = m_status \cup {bit}
    /\ master_err_is_logged' =
          IF SERVER_MASTER \in (m_status \cup {bit}) THEN FALSE ELSE master_err_is_logged

\* Mutant: clearing a bit clears the whole mask.
clear_status_all(bit) ==
    /\ m_status' = {}
    /\ UNCHANGED master_err_is_logged

\* Mutant: clearing the master bit also clears the flag.
clear_status_masterflag(bit) ==
    /\ m_status' = m_status \ {bit}
    /\ master_err_is_logged' = IF bit = SERVER_MASTER THEN FALSE ELSE master_err_is_logged

\* SERVER::clear_status(bit)
clear_status(bit) ==
    /\ m_status' = m_status \ {bit}
    /\ UNCHANGED master_err_is_logged

PoolRest ==
    /\ Ready
    /\ UNCHANGED <<rtvars, cfgvars>>
    /\ ret' = NoRet
    /\ UNCHANGED <<persistent, m_nextpersistent, m_user, m_remote, m_dcb_errhandle_called,
                   m_persistentstart, owner, released_on, persistpoolmax, persistmaxtime,
                   n_persistent, n_current, now, pc, dcb,
                   cleanup_pending, fx, lastop>>

\* The monitor marks the server up or down.
MonitorUp == set_status(SERVER_RUNNING) /\ PoolRest

MonitorDown == clear_status(SERVER_RUNNING) /\ PoolRest

\* ------------------------------------------------------------------ system
\* The server as Server::server_alloc leaves it: running, empty lists.
PoolInit ==
    /\ persistent = [t \in Threads |-> NULL]
    /\ m_nextpersistent = [d \in Dcbs |-> NULL]
    /\ m_user = [d \in Dcbs |-> NoStr]
    /\ m_remote = [d \in Dcbs |-> NoStr]
    /\ m_dcb_errhandle_called = [d \in Dcbs |-> FALSE]
    /\ m_persistentstart = [d \in Dcbs |-> 0]
    /\ owner = [d \in Dcbs |-> NoThread]
    /\ released_on = [d \in Dcbs |-> NoThread]
    /\ m_status = {SERVER_RUNNING}
    /\ master_err_is_logged = FALSE
    /\ n_persistent = 0
    /\ n_current = 0
    /\ now = 0
    /\ pc = [t \in Threads |-> "idle"]
    /\ dcb = [t \in Threads |-> NULL]
    /\ ret = NoRet
    /\ cleanup_pending = {}
    /\ fx = [t \in Threads |-> NoFx]
    /\ lastop = NoOp

\* No set_status or clear_status call has been traced.
NoStatusCall == [op |-> "none", bit |-> NoStr, old_status |-> {}, old_logged |-> FALSE,
                 paired |-> FALSE, base |-> {}]

\* The variables outside the pool and the response-time statistics at rest.
\* A char array of n + 1 elements, all zero.
NUL == "NUL"
ZeroBuf(n) == [i \in 1 .. (n + 1) |-> NUL]

\* No server_alloc or set_monitor_* call has been traced.
NoMonCall == [op |-> "none", user |-> <<>>, pw |-> <<>>, rval |-> FALSE, allocated |-> FALSE,
              old_user |-> ZeroBuf(MAX_MONUSER_LEN), old_pw |-> ZeroBuf(MAX_MONPW_LEN),
              repeated |-> FALSE]

\* The paths of the persist directory: <name>.cnf, <name>.cnf.tmp and a
\* path given to create_server_config directly.
FinalPath == "final"
TempPath == "temp"
OtherPath == "other"
Paths == {FinalPath, TempPath, OtherPath}

\* A path without a file.
NoFile == [exists |-> FALSE, ver |-> 0, written |-> 0]

\* Neither serialize nor create_server_config is running.
SerIdle == [pc |-> "idle", caller |-> "none", path |-> NoStr, cfg |-> 0, failed |-> "none",
            existed |-> FALSE, old_file |-> NoFile, old_final |-> NoFile, old_config |-> 0]

\* No serialize or create_server_config call has been traced.
NoFileCall == [op |-> "none", rval |-> FALSE, path |-> NoStr, failed |-> "none",
               existed |-> FALSE, old_file |-> NoFile, old_final |-> NoFile, old_config |-> 0]

\* The mutexes of a server: m_settings.lock, m_average_write_mutex and the
\* m_lock of its VersionInfo.
SettingsLock == "m_settings.lock"
AverageWriteMutex == "m_average_write_mutex"
VersionLock == "m_info.m_lock"
Mutexes == {SettingsLock, AverageWriteMutex, VersionLock}

\* The backend types VersionInfo::set tells apart.
MARIADB == "MARIADB"
MYSQL == "MYSQL"
CLUSTRIX == "CLUSTRIX"

\* No VersionInfo::set call has been traced.
NoVerCall == [op |-> "none", version |-> 0, str |-> <<>>, old_type |-> MARIADB]

\* No call has been given an address.
NoAddrCall == [op |-> "none", arg |-> <<>>, rval |-> FALSE, log |-> "none",
               old |-> ZeroBuf(MAX_ADDRESS_LEN)]

\* No VersionInfo::set call by a thread, and a reader that has read nothing.
NoSetArg == [version |-> 0, str |-> <<>>, contended |-> FALSE]
NoRead == [pc |-> "idle", num |-> [total |-> 0, major |-> 0, minor |-> 0, patch |-> 0],
           type |-> MARIADB, str |-> <<>>, overlap |-> FALSE, call |-> NoVerCall]

\* No value has been converted.
NoConvCall == [param |-> "none", text |-> <<>>, valid |-> FALSE, same |-> FALSE]

\* A specification without parameters, and no validate call traced.
NoParams == [n \in {} |-> "none"]
NoValCall == [op |-> "none", params |-> NoParams, spec |-> NoParams, rval |-> FALSE]

\* A hashtable without entries, and no call on the users table traced.
NoUsers == [u \in {} |-> "none"]
NoUsersCall == [op |-> "none", user |-> NoStr, rval |-> 0, old_data |-> NoUsers, old_entries |-> 0]

CfgInit ==
    /\ status_call = NoStatusCall
    /\ files = [p \in Paths |-> NoFile]
    /\ config = 0
    /\ ser = SerIdle
    /\ file_call = NoFileCall
    /\ settings_lock = NoThread
    /\ param_op = [t \in Threads |-> "none"]
    /\ param_pos = [t \in Threads |-> 0]
    /\ server = "none"
    /\ monuser = ZeroBuf(MAX_MONUSER_LEN)
    /\ monpw = ZeroBuf(MAX_MONPW_LEN)
    /\ mon_call = NoMonCall
    /\ mutex = [m \in Mutexes |-> NoThread]
    /\ mx_op = [t \in Threads |-> "none"]
    /\ mx_pos = [t \in Threads |-> 0]
    /\ is_active = FALSE
    /\ destroyed = FALSE
    /\ life_call = "none"
    /\ m_version_num = [total |-> 0, major |-> 0, minor |-> 0, patch |-> 0]
    /\ m_version_str = ZeroBuf(MAX_VERSION_LEN)
    /\ m_type = MARIADB
    /\ ver_call = NoVerCall
    /\ address = ZeroBuf(MAX_ADDRESS_LEN)
    /\ addr_call = NoAddrCall
    /\ vs_pc = [t \in Threads |-> "idle"]
    /\ vs_arg = [t \in Threads |-> NoSetArg]
    /\ rd = NoRead
    /\ conv_call = NoConvCall
    /\ m_params = NoParams
    /\ val_call = NoValCall
    /\ users = "none"
    /\ users_data = NoUsers
    /\ stats = [n_entries |-> 0, n_adds |-> 0, n_deletes |-> 0, n_fetches |-> 0]
    /\ users_call = NoUsersCall
    /\ users_made = [adds |-> 0, deletes |-> 0, fetches |-> 0]

NoCall == [called |-> FALSE, ave |-> 0, num_samples |-> 0, old_max |-> 0, old_ave |-> 0]

Init ==
    /\ PoolInit
    /\ persistpoolmax \in 0 .. MaxPoolMax
    /\ persistmaxtime \in 0 .. MaxPersistTime
    /\ sample_max = MaxSampleInit
    /\ m_ave = 0
    /\ rt = NoCall
    /\ CfgInit

Next ==
    \/ \E t \in Threads, d \in Dcbs : Open(t, d)
    \/ \E t \in Threads, d \in Dcbs, id \in Idents : Release(t, d, id[1], id[2])
    \/ \E t \in Threads, r \in Requests : FetchStart(t, r[1], r[2], r[3])
    \/ \E t \in Threads : FetchDec(t)
    \/ \E t \in Threads : FetchInc(t)
    \/ \E t \in Threads : CleanupTaskExecute(t)
    \/ cleanup_persistent_connections
    \/ \E d \in Dcbs : ErrHandle(d)
    \/ Tick
    \/ MonitorUp
    \/ MonitorDown
    \/ Resume

Spec == Init /\ [][Next]_vars

\* ---------------------------------------------------------- response time
\* int(n * drift) with drift = 1.1: the product is truncated.
TimesDrift(n) == (n * 11) \div 10

\* The values below 128 for which the double n / 1.1 falls just below the
\* integer (n * 10) / 11 and is truncated to one less.
DriftRoundsDown == {33, 55, 66, 99, 110, 121}

\* int(n / drift) with drift = 1.1
OverDrift(n) == IF n \in DriftRoundsDown THEN (n * 10) \div 11 - 1 ELSE (n * 10) \div 11

\* m_response_time.average() / ave > 2 in doubles: a division by zero gives
\* infinity, or a NaN that compares false.
RatioOverTwo(ema, ave) == IF ave = 0 THEN ema > 0 ELSE ema > 2 * ave

\* Mutant: the first branch is taken only by more samples than the maximum.
NewSampleMax_gt(current_max, ema, ave, num_samples) ==
    IF num_samples > current_max THEN TimesDrift(num_samples)
    ELSE IF RatioOverTwo(ema, ave) THEN current_max \div 2
    ELSE OverDrift(current_max)

\* Mutant: the last branch leaves the maximum as it is.
NewSampleMax_nodecay(current_max, ema, ave, num_samples) ==
    IF num_samples >= current_max THEN TimesDrift(num_samples)
    ELSE IF RatioOverTwo(ema, ave) THEN current_max \div 2
    ELSE current_max

\* new_max as the three branches of SERVER::response_time_add compute it.
NewSampleMax(current_max, ema, ave, num_samples) ==
    IF num_samples >= current_max THEN TimesDrift(num_samples)
    ELSE IF RatioOverTwo(ema, ave) THEN current_max \div 2
    ELSE OverDrift(current_max)

Between(a, b) == (IF a <= b THEN a ELSE b) .. (IF a <= b THEN b ELSE a)

\* SERVER::response_time_add(ave, num_samples), under m_average_write_mutex:
\* set_sample_max(new_max), then EMAverage::add weighs the new average into
\* the moving average.
response_time_add(ave, num_samples) ==
    /\ sample_max' = NewSampleMax(sample_max, m_ave, ave, num_samples)
    /\ m_ave' \in Between(m_ave, ave)
    /\ rt' = [called |-> TRUE, ave |-> ave, num_samples |-> num_samples,
              old_max |-> sample_max, old_ave |-> m_ave]
    /\ UNCHANGED <<poolvars, cfgvars>>

InitRT ==
    /\ PoolInit
    /\ persistpoolmax = 0
    /\ persistmaxtime = 0
    /\ sample_max \in 1 .. MaxSampleInit
    /\ m_ave = 0
    /\ rt = NoCall
    /\ CfgInit

NextRT == \E ave \in 0 .. MaxAve, num_samples \in 0 .. MaxSamples :
              response_time_add(ave, num_samples)

SpecRT == InitRT /\ [][NextRT]_vars

\* ------------------------------------------------------------ status bits
SERVER_SLAVE == "SERVER_SLAVE"
SERVER_MAINT == "SERVER_MAINT"

\* The status bits the monitor and the administrator set and clear.
StatusBits == {SERVER_RUNNING, SERVER_MASTER, SERVER_SLAVE, SERVER_MAINT}

\* What a status call leaves alone.
StatusRest ==
    /\ UNCHANGED rtvars
    /\ UNCHANGED <<persistent, m_nextpersistent, m_user, m_remote, m_dcb_errhandle_called,
                   m_persistentstart, owner, released_on, persistpoolmax, persistmaxtime,
                   n_persistent, n_current, now, pc, dcb, ret,
                   cleanup_pending, fx, lastop>>
    /\ UNCHANGED <<monvars, filevars, paramvars, mutexvars, lifevars, vervars, addrvars, vsetvars, convvars, valvars, usersvars>>

\* A call of SERVER::set_status(bit).
StatusSet(bit) ==
    /\ set_status(bit)
    /\ status_call' = [op |-> "set", bit |-> bit, old_status |-> m_status,
                       old_logged |-> master_err_is_logged,
                       paired |-> FALSE, base |-> m_status]
    /\ StatusRest

\* A call of SERVER::clear_status(bit); paired when it directly follows
\* set_status of the same bit, base being the mask before that set_status.
StatusClear(bit) ==
    /\ clear_status(bit)
    /\ status_call' = [op |-> "clear", bit |-> bit, old_status |-> m_status,
                       old_logged |-> master_err_is_logged,
                       paired |-> (status_call.op = "set" /\ status_call.bit = bit),
                       base |-> IF status_call.op = "set" /\ status_call.bit = bit
                                THEN status_call.base ELSE {}]
    /\ StatusRest

\* The monitor has logged the loss of the master and remembers it.
LogMasterError ==
    /\ ~master_err_is_logged
    /\ master_err_is_logged' = TRUE
    /\ status_call' = NoStatusCall
    /\ UNCHANGED m_status
    /\ StatusRest

InitStatus ==
    /\ PoolInit
    /\ persistpoolmax = 0
    /\ persistmaxtime = 0
    /\ sample_max = MaxSampleInit
    /\ m_ave = 0
    /\ rt = NoCall
    /\ CfgInit

NextStatus ==
    \/ \E bit \in StatusBits : StatusSet(bit)
    \/ \E bit \in StatusBits : StatusClear(bit)
    \/ LogMasterError

SpecStatus == InitStatus /\ [][NextStatus]_vars

\* ---------------------------------------------------- monitor credentials
\* The characters of the strings given as monitor user and password.
Chars == {"a", "b"}

\* All strings of at most n characters.
StringsUpTo(n) == UNION {[1 .. k -> Chars] : k \in 0 .. n}

\* The strings a configuration gives: up to one character too long.
UserStrings == StringsUpTo(MAX_MONUSER_LEN + 1)
PwStrings == StringsUpTo(MAX_MONPW_LEN + 1)

\* strlen(dest): the number of characters before the first zero.
strlen(dest) ==
    IF \A i \in DOMAIN dest : dest[i] # NUL THEN Len(dest)
    ELSE (CHOOSE i \in DOMAIN dest : dest[i] = NUL /\ \A j \in 1 .. (i - 1) : dest[j] # NUL) - 1

\* The string a char array holds.
CStr(dest) == SubSeq(dest, 1, strlen(dest))

\* careful_strcpy(dest, max_len, source): zero the excess of the old string,
\* then copy at most max_len characters.
careful_strcpy(dest, max_len, source) ==
    LET new_len == IF Len(source) > max_len THEN max_len ELSE Len(source)
        old_len == strlen(dest)
        zeroed == [i \in DOMAIN dest |->
                      IF new_len < old_len /\ i > new_len /\ i <= old_len THEN NUL ELSE dest[i]]
    IN  [i \in DOMAIN dest |-> IF i <= new_len THEN source[i] ELSE zeroed[i]]

\* Mutant: an over-long user name is truncated and accepted.
MonitorUserSet_truncate(buf, username) ==
    [rval |-> TRUE, buf |-> careful_strcpy(buf, MAX_MONUSER_LEN, username)]

\* Server::set_monitor_user(username): the return value and the array.
MonitorUserSet(buf, username) ==
    IF Len(username) <= MAX_MONUSER_LEN
    THEN [rval |-> TRUE, buf |-> careful_strcpy(buf, MAX_MONUSER_LEN, username)]
    ELSE [rval |-> FALSE, buf |-> buf]

\* Mutant: an over-long password is truncated and accepted.
MonitorPasswordSet_truncate(buf, password) ==
    [rval |-> TRUE, buf |-> careful_strcpy(buf, MAX_MONPW_LEN, password)]

\* Server::set_monitor_password(password): the return value and the array.
MonitorPasswordSet(buf, password) ==
    IF Len(password) <= MAX_MONPW_LEN
    THEN [rval |-> TRUE, buf |-> careful_strcpy(buf, MAX_MONPW_LEN, password)]
    ELSE [rval |-> FALSE, buf |-> buf]

\* What a call on the monitor credentials leaves alone.
MonRest == UNCHANGED <<poolvars, rtvars, statusvars, filevars, paramvars, mutexvars, lifevars, vervars, addrvars, vsetvars, convvars, valvars, usersvars>>

\* A call of Server::set_monitor_user on the created server.
set_monitor_user(username) ==
    /\ server = "created"
    /\ monuser' = MonitorUserSet(monuser, username).buf
    /\ mon_call' = [op |-> "set_monitor_user", user |-> username, pw |-> <<>>,
                    rval |-> MonitorUserSet(monuser, username).rval, allocated |-> TRUE,
                    old_user |-> monuser, old_pw |-> monpw,
                    repeated |-> (mon_call.op = "set_monitor_user" /\ mon_call.user = username)]
    /\ UNCHANGED <<server, monpw>>
    /\ MonRest

\* A call of Server::set_monitor_password on the created server.
set_monitor_password(password) ==
    /\ server = "created"
    /\ monpw' = MonitorPasswordSet(monpw, password).buf
    /\ mon_call' = [op |-> "set_monitor_password", user |-> <<>>, pw |-> password,
                    rval |-> MonitorPasswordSet(monpw, password).rval, allocated |-> TRUE,
                    old_user |-> monuser, old_pw |-> monpw,
                    repeated |-> (mon_call.op = "set_monitor_password" /\ mon_call.pw = password)]
    /\ UNCHANGED <<server, monuser>>
    /\ MonRest

\* The credential pairing check at the head of Server::server_alloc.
OneDefined(user, pw) == (user # <<>> /\ pw = <<>>) \/ (user = <<>> /\ pw # <<>>)

\* Mutant: only a user without a password is refused.
AllocResult_useronly(user, pw, ssl_ok, mem_ok) ==
    IF user # <<>> /\ pw = <<>> THEN [made |-> FALSE, allocated |-> FALSE]
    ELSE IF ~ssl_ok THEN [made |-> FALSE, allocated |-> FALSE]
    ELSE IF ~mem_ok THEN [made |-> FALSE, allocated |-> TRUE]
    ELSE [made |-> TRUE, allocated |-> TRUE]

\* Whether Server::server_alloc produces a server, and whether it got as far
\* as allocating: the pairing check, config_create_ssl, new and MXS_CALLOC.
AllocResult(user, pw, ssl_ok, mem_ok) ==
    IF OneDefined(user, pw) THEN [made |-> FALSE, allocated |-> FALSE]
    ELSE IF ~ssl_ok THEN [made |-> FALSE, allocated |-> FALSE]
    ELSE IF ~mem_ok THEN [made |-> FALSE, allocated |-> TRUE]
    ELSE [made |-> TRUE, allocated |-> TRUE]

\* Server::server_alloc(name, params) with the monitor user, the monitor
\* password and the address of params; the return values of the two setters
\* are not looked at. It is the first call of a behaviour: a failed call
\* leaves nothing behind. The server returned has the address cut to
\* MAX_ADDRESS_LEN characters (a warning is logged if it was longer),
\* is_active = true and the status SERVER_RUNNING.
server_alloc(user, pw, addr, ssl_ok, mem_ok) ==
    LET res == AllocResult(user, pw, ssl_ok, mem_ok)
        set == res.made /\ user # <<>>
    IN  /\ server = "none"
        /\ mon_call = NoMonCall
        /\ server' = IF res.made THEN "created" ELSE "none"
        /\ address' = IF res.made
                      THEN careful_strcpy(ZeroBuf(MAX_ADDRESS_LEN), MAX_ADDRESS_LEN, addr)
                      ELSE ZeroBuf(MAX_ADDRESS_LEN)
        /\ addr_call' = [op |-> "server_alloc", arg |-> addr, rval |-> res.made,
                         log |-> IF res.made /\ Len(addr) > MAX_ADDRESS_LEN
                                 THEN "warning" ELSE "none",
                         old |-> address]
        /\ monuser' = IF set THEN MonitorUserSet(ZeroBuf(MAX_MONUSER_LEN), user).buf
                      ELSE ZeroBuf(MAX_MONUSER_LEN)
        /\ monpw' = IF set THEN MonitorPasswordSet(ZeroBuf(MAX_MONPW_LEN), pw).buf
                    ELSE ZeroBuf(MAX_MONPW_LEN)
        /\ mon_call' = [op |-> "server_alloc", user |-> user, pw |-> pw,
                        rval |-> res.made, allocated |-> res.allocated,
                        old_user |-> monuser, old_pw |-> monpw, repeated |-> FALSE]
        /\ is_active' = res.made
        /\ UNCHANGED <<destroyed, life_call>>
        /\ UNCHANGED <<poolvars, rtvars, statusvars, filevars, paramvars, mutexvars, vervars, vsetvars, convvars, valvars, usersvars>>

\* The address of the configurations whose address does not matter.
SomeAddress == <<"a">>

InitMon == InitStatus

NextMon ==
    \/ \E user \in UserStrings, pw \in PwStrings, ssl_ok \in BOOLEAN, mem_ok \in BOOLEAN :
           server_alloc(user, pw, SomeAddress, ssl_ok, mem_ok)
    \/ \E username \in UserStrings : set_monitor_user(username)
    \/ \E password \in PwStrings : set_monitor_password(password)

SpecMon == InitMon /\ [][NextMon]_vars

\* ------------------------------------------------------- disk serialization
\* A file that holds a whole configuration text.
Complete(f) == f.exists /\ f.written = ConfigChunks

\* What a step of the serialization leaves alone.
FileRest == UNCHANGED <<poolvars, rtvars, statusvars, monvars, paramvars, mutexvars, lifevars, vervars, addrvars, vsetvars, convvars, valvars, usersvars>>

\* The call returns rval to its caller.
FileReturn(rval, failed) ==
    /\ file_call' = [op |-> ser.caller, rval |-> rval, path |-> ser.path, failed |-> failed,
                     existed |-> ser.existed, old_file |-> ser.old_file,
                     old_final |-> ser.old_final, old_config |-> ser.old_config]
    /\ ser' = SerIdle

\* Server::serialize() is called: the names are built.
SerializeStart ==
    /\ ser.pc = "idle"
    /\ ser' = [SerIdle EXCEPT !.pc = "unlink", !.caller = "serialize", !.path = TempPath,
                              !.old_final = files[FinalPath], !.old_config = config]
    /\ file_call' = NoFileCall
    /\ UNCHANGED <<files, config>>
    /\ FileRest

\* unlink(zTempFilename): an error other than ENOENT ends the call.
SerializeUnlink(ok) ==
    /\ ser.pc = "unlink"
    /\ IF ok
       THEN /\ files' = [files EXCEPT ![TempPath] = NoFile]
            /\ ser' = [ser EXCEPT !.pc = "open"]
            /\ UNCHANGED file_call
       ELSE /\ FileReturn(FALSE, "unlink")
            /\ UNCHANGED files
    /\ UNCHANGED config
    /\ FileRest

\* Server::create_server_config(filename) is called by itself.
CreateStart ==
    /\ ser.pc = "idle"
    /\ ser' = [SerIdle EXCEPT !.pc = "open", !.caller = "create_server_config",
                              !.path = OtherPath,
                              !.old_final = files[FinalPath], !.old_config = config]
    /\ file_call' = NoFileCall
    /\ UNCHANGED <<files, config>>
    /\ FileRest

\* Mutant: the file is opened without O_EXCL and an existing one is emptied.
OpenCreates_trunc(f, ok) == ok

\* open(filename, O_EXCL | O_CREAT | O_WRONLY) creates the file: only when
\* none exists and nothing else fails.
OpenCreates(f, ok) == ok /\ ~f.exists

\* The open of create_server_config and, when it succeeds, the building of
\* the configuration text from the parameters in memory.
CreateOpen(ok) ==
    /\ ser.pc = "open"
    /\ IF OpenCreates(files[ser.path], ok)
       THEN /\ files' = [files EXCEPT ![ser.path] = [exists |-> TRUE, ver |-> config,
                                                     written |-> 0]]
            /\ ser' = [ser EXCEPT !.pc = "write", !.cfg = config,
                                  !.existed = files[ser.path].exists,
                                  !.old_file = files[ser.path]]
            /\ UNCHANGED file_call
       ELSE /\ file_call' = [op |-> ser.caller, rval |-> FALSE, path |-> ser.path,
                             failed |-> "open", existed |-> files[ser.path].exists,
                             old_file |-> files[ser.path], old_final |-> ser.old_final,
                             old_config |-> ser.old_config]
            /\ ser' = SerIdle
            /\ UNCHANGED files
    /\ UNCHANGED config
    /\ FileRest

\* dprintf(file, "%s", config): the text reaches the file piece by piece, or
\* the write fails and leaves what was written so far; the error is logged
\* and the function goes on to close the file like after a good write.
CreateWrite(ok) ==
    /\ ser.pc = "write"
    /\ IF ok
       THEN /\ files' = [files EXCEPT ![ser.path].written = @ + 1]
            /\ ser' = [ser EXCEPT !.pc = IF files[ser.path].written + 1 = ConfigChunks
                                         THEN "close" ELSE "write"]
            /\ UNCHANGED file_call
       ELSE /\ ser' = [ser EXCEPT !.pc = "close", !.failed = "write"]
            /\ UNCHANGED <<files, file_call>>
    /\ UNCHANGED config
    /\ FileRest

\* close(file); return true. serialize goes on to the rename.
CreateClose ==
    /\ ser.pc = "close"
    /\ IF ser.caller = "serialize"
       THEN /\ ser' = [ser EXCEPT !.pc = "rename"]
            /\ UNCHANGED file_call
       ELSE FileReturn(TRUE, ser.failed)
    /\ UNCHANGED <<files, config>>
    /\ FileRest

\* rename(zTempFilename, final_filename): atomic, or it fails.
SerializeRename(ok) ==
    /\ ser.pc = "rename"
    /\ IF ok
       THEN /\ files' = [files EXCEPT ![FinalPath] = files[TempPath], ![TempPath] = NoFile]
            /\ FileReturn(TRUE, ser.failed)
       ELSE /\ FileReturn(FALSE, "rename")
            /\ UNCHANGED files
    /\ UNCHANGED config
    /\ FileRest

\* The process dies inside the call and is started again: the files stay.
Crash ==
    /\ ser.pc # "idle"
    /\ ser' = SerIdle
    /\ file_call' = [NoFileCall EXCEPT !.op = "crash"]
    /\ UNCHANGED <<files, config>>
    /\ FileRest

\* The parameters in memory are changed between two calls.
ConfigChange ==
    /\ ser.pc = "idle"
    /\ config < MaxVersion
    /\ config' = config + 1
    /\ file_call' = NoFileCall
    /\ UNCHANGED <<files, ser>>
    /\ FileRest

InitFile == InitStatus

NextFile ==
    \/ SerializeStart
    \/ \E ok \in BOOLEAN : SerializeUnlink(ok)
    \/ CreateStart
    \/ \E ok \in BOOLEAN : CreateOpen(ok)
    \/ \E ok \in BOOLEAN : CreateWrite(ok)
    \/ CreateClose
    \/ \E ok \in BOOLEAN : SerializeRename(ok)
    \/ Crash
    \/ ConfigChange

SpecFile == InitFile /\ [][NextFile]_vars

\* ------------------------------------------------------- custom parameters
\* The two containers of m_settings.
AllParameters == "all_parameters"
CustomParameters == "custom_parameters"

\* A step of a parameter function: an access begins or ends, or the Guard
\* on m_settings.lock is built or destroyed.
Begin(container, mode) == [kind |-> "begin", container |-> container, mode |-> mode]
End(container, mode) == [kind |-> "end", container |-> container, mode |-> mode]
Lock == [kind |-> "lock", container |-> NoStr, mode |-> NoStr]
Unlock == [kind |-> "unlock", container |-> NoStr, mode |-> NoStr]

\* An access to a container under a Guard on m_settings.lock.
Guarded(container, mode) == <<Lock, Begin(container, mode), End(container, mode), Unlock>>

\* An access to a container with no lock held.
Unguarded(container, mode) == <<Begin(container, mode), End(container, mode)>>

\* The accesses each function makes to the parameter containers, in order.
Steps(op) ==
    CASE op = "set_custom_parameter" ->
             Unguarded(AllParameters, "write") \o Guarded(CustomParameters, "write")
      [] op = "get_custom_parameter" -> Guarded(CustomParameters, "read")
      [] op = "create_server_config" ->
             Unguarded(AllParameters, "read") \o Guarded(CustomParameters, "read")
      [] op = "json_attributes" ->
             Unguarded(AllParameters, "read") \o Guarded(CustomParameters, "read")
      [] op = "print_to_dcb" -> Unguarded(AllParameters, "read")
      [] OTHER -> <<>>

ParamOps == {"set_custom_parameter", "get_custom_parameter", "create_server_config",
             "json_attributes", "print_to_dcb"}

\* The step thread t takes next, and the access it is in the middle of.
NextStep(t) == Steps(param_op[t])[param_pos[t] + 1]
InCall(t) == param_op[t] # "none" /\ param_pos[t] < Len(Steps(param_op[t]))
Accessing(t, container, mode) ==
    /\ param_op[t] # "none"
    /\ param_pos[t] > 0
    /\ Steps(param_op[t])[param_pos[t]] = Begin(container, mode)

ParamRest == UNCHANGED <<poolvars, rtvars, statusvars, monvars, filevars, mutexvars, lifevars, vervars, addrvars, vsetvars, convvars, valvars, usersvars>>

\* Thread t calls one of the functions.
ParamCall(t, op) ==
    /\ param_op[t] = "none"
    /\ param_op' = [param_op EXCEPT ![t] = op]
    /\ param_pos' = [param_pos EXCEPT ![t] = 0]
    /\ UNCHANGED settings_lock
    /\ ParamRest

\* Guard guard(m_settings.lock): waits until the mutex is free.
ParamLock(t) ==
    /\ InCall(t)
    /\ NextStep(t).kind = "lock"
    /\ settings_lock = NoThread
    /\ settings_lock' = t
    /\ param_pos' = [param_pos EXCEPT ![t] = @ + 1]
    /\ UNCHANGED param_op
    /\ ParamRest

\* The Guard goes out of scope.
ParamUnlock(t) ==
    /\ InCall(t)
    /\ NextStep(t).kind = "unlock"
    /\ settings_lock' = NoThread
    /\ param_pos' = [param_pos EXCEPT ![t] = @ + 1]
    /\ UNCHANGED param_op
    /\ ParamRest

\* A read or write of a container begins or ends.
ParamAccess(t) ==
    /\ InCall(t)
    /\ NextStep(t).kind \in {"begin", "end"}
    /\ param_pos' = [param_pos EXCEPT ![t] = @ + 1]
    /\ UNCHANGED <<settings_lock, param_op>>
    /\ ParamRest

\* The function returns.
ParamReturn(t) ==
    /\ param_op[t] # "none"
    /\ param_pos[t] = Len(Steps(param_op[t]))
    /\ param_op' = [param_op EXCEPT ![t] = "none"]
    /\ param_pos' = [param_pos EXCEPT ![t] = 0]
    /\ UNCHANGED settings_lock
    /\ ParamRest

InitParam == InitStatus

NextParam ==
    \/ \E t \in Threads, op \in ParamOps : ParamCall(t, op)
    \/ \E t \in Threads : ParamLock(t)
    \/ \E t \in Threads : ParamUnlock(t)
    \/ \E t \in Threads : ParamAccess(t)
    \/ \E t \in Threads : ParamReturn(t)

SpecParam == InitParam /\ [][NextParam]_vars

\* ------------------------------------------------------------- the mutexes
\* A step of a function with respect to the mutexes: a Guard is built on a
\* mutex, goes out of scope, or the function works without changing what it
\* holds.
Acquire(m) == [kind |-> "lock", mutex |-> m]
Drop(m) == [kind |-> "unlock", mutex |-> m]
Work == [kind |-> "work", mutex |-> NoStr]

\* Mutant: json_attributes reads the version under the settings lock and
\* set_version touches the settings under the version lock.
MutexSteps_nested(op) ==
    CASE op = "json_attributes" ->
             <<Work, Acquire(SettingsLock), Acquire(VersionLock), Work, Drop(VersionLock),
               Drop(SettingsLock), Work>>
      [] op = "set_version" ->
             <<Acquire(VersionLock), Acquire(SettingsLock), Work, Drop(SettingsLock),
               Drop(VersionLock)>>
      [] OTHER -> <<Acquire(SettingsLock), Work, Drop(SettingsLock)>>

\* What each function does with the mutexes, in order.
MutexSteps(op) ==
    CASE op = "set_custom_parameter" ->
             <<Work, Acquire(SettingsLock), Work, Drop(SettingsLock)>>
      [] op = "get_custom_parameter" ->
             <<Acquire(SettingsLock), Work, Drop(SettingsLock)>>
      [] op = "response_time_add" ->
             <<Acquire(AverageWriteMutex), Work, Drop(AverageWriteMutex)>>
      [] op = "set_version" ->
             <<Work, Acquire(VersionLock), Work, Drop(VersionLock)>>
      [] op = "json_attributes" ->
             <<Work, Acquire(SettingsLock), Work, Drop(SettingsLock), Work>>
      [] op = "create_server_config" ->
             <<Work, Acquire(SettingsLock), Work, Drop(SettingsLock), Work>>
      [] OTHER -> <<>>

MutexOps == {"set_custom_parameter", "get_custom_parameter", "response_time_add",
             "set_version", "json_attributes", "create_server_config"}

\* Thread t is inside a function and has a step left; that step.
MxInCall(t) == mx_op[t] # "none" /\ mx_pos[t] < Len(MutexSteps(mx_op[t]))
MxNext(t) == MutexSteps(mx_op[t])[mx_pos[t] + 1]

\* The mutexes thread t holds.
Held(t) == {m \in Mutexes : mutex[m] = t}

\* Thread t is waiting for a mutex that another thread holds.
MxWaiting(t) ==
    /\ MxInCall(t)
    /\ MxNext(t).kind = "lock"
    /\ mutex[MxNext(t).mutex] # NoThread

\* Thread t can take its next step.
MxCanStep(t) == MxInCall(t) /\ ~MxWaiting(t)

MutexRest == UNCHANGED <<poolvars, rtvars, statusvars, monvars, filevars, paramvars, lifevars, vervars, addrvars, vsetvars, convvars, valvars, usersvars>>

\* Thread t calls one of the functions.
MxCall(t, op) ==
    /\ mx_op[t] = "none"
    /\ mx_op' = [mx_op EXCEPT ![t] = op]
    /\ mx_pos' = [mx_pos EXCEPT ![t] = 0]
    /\ UNCHANGED mutex
    /\ MutexRest

\* Guard guard(m): the thread gets the mutex once it is free.
MxLock(t) ==
    /\ MxInCall(t)
    /\ MxNext(t).kind = "lock"
    /\ mutex[MxNext(t).mutex] = NoThread
    /\ mutex' = [mutex EXCEPT ![MxNext(t).mutex] = t]
    /\ mx_pos' = [mx_pos EXCEPT ![t] = @ + 1]
    /\ UNCHANGED mx_op
    /\ MutexRest

\* The Guard goes out of scope.
MxUnlock(t) ==
    /\ MxInCall(t)
    /\ MxNext(t).kind = "unlock"
    /\ mutex' = [mutex EXCEPT ![MxNext(t).mutex] = NoThread]
    /\ mx_pos' = [mx_pos EXCEPT ![t] = @ + 1]
    /\ UNCHANGED mx_op
    /\ MutexRest

\* The function works on, inside or outside a Guard.
MxWork(t) ==
    /\ MxInCall(t)
    /\ MxNext(t).kind = "work"
    /\ mx_pos' = [mx_pos EXCEPT ![t] = @ + 1]
    /\ UNCHANGED <<mutex, mx_op>>
    /\ MutexRest

\* The function returns.
MxReturn(t) ==
    /\ mx_op[t] # "none"
    /\ mx_pos[t] = Len(MutexSteps(mx_op[t]))
    /\ mx_op' = [mx_op EXCEPT ![t] = "none"]
    /\ mx_pos' = [mx_pos EXCEPT ![t] = 0]
    /\ UNCHANGED mutex
    /\ MutexRest

InitMutex == InitStatus

NextMutex ==
    \/ \E t \in Threads, op \in MutexOps : MxCall(t, op)
    \/ \E t \in Threads : MxLock(t)
    \/ \E t \in Threads : MxUnlock(t)
    \/ \E t \in Threads : MxWork(t)
    \/ \E t \in Threads : MxReturn(t)

SpecMutex == InitMutex /\ [][NextMutex]_vars

\* ---------------------------------------------------------------- lifetime
\* The stage of the server's lifetime: Provisional until server_alloc has
\* returned it, Active while is_active holds, Draining from deactivate until
\* the destruction, Retired after it.
Life ==
    IF server = "none" THEN "Provisional"
    ELSE IF is_active THEN "Active"
    ELSE IF destroyed THEN "Retired"
    ELSE "Draining"

\* The references in-flight connections hold to the server: stats().n_current
\* counts the connections that are in use.
RefCount == n_current

\* The workers can call the server: it has been created and not destroyed.
Usable == server = "created" /\ ~destroyed

\* No worker is inside a call on the server.
Quiet == Ready /\ \A t \in Threads : Idle(t)

LifeRest == UNCHANGED <<rtvars, statusvars, monvars, filevars, paramvars, mutexvars, vervars, addrvars, vsetvars, convvars, valvars, usersvars>>

\* The pool with every pooled connection closed.
PoolClosed ==
    [persistent |-> [t \in Threads |-> NULL],
     next |-> [d \in Dcbs |-> IF d \in Linked THEN NULL ELSE m_nextpersistent[d]],
     user |-> [d \in Dcbs |-> IF d \in Linked THEN NoStr ELSE m_user[d]],
     remote |-> [d \in Dcbs |-> IF d \in Linked THEN NoStr ELSE m_remote[d]],
     err |-> [d \in Dcbs |-> IF d \in Linked THEN FALSE ELSE m_dcb_errhandle_called[d]],
     start |-> [d \in Dcbs |-> IF d \in Linked THEN 0 ELSE m_persistentstart[d]],
     released_on |-> [d \in Dcbs |-> IF d \in Linked THEN NoThread ELSE released_on[d]],
     n_persistent |-> n_persistent - Cardinality(Linked),
     count |-> 0]

\* Mutant: deactivate destroys the server at once.
Deactivate_destroy ==
    /\ Usable
    /\ is_active
    /\ Quiet
    /\ is_active' = FALSE
    /\ destroyed' = TRUE
    /\ life_call' = "deactivate"
    /\ SetPool(PoolClosed)
    /\ lastop' = NoOp
    /\ UNCHANGED <<owner, m_status, master_err_is_logged, persistpoolmax, persistmaxtime,
                   n_current, now, pc, dcb, ret, cleanup_pending, fx>>
    /\ LifeRest

\* deactivate(name): the server is marked inactive and not destroyed; the
\* connections it has in the pool are closed.
Deactivate ==
    /\ Usable
    /\ is_active
    /\ Quiet
    /\ is_active' = FALSE
    /\ life_call' = "deactivate"
    /\ SetPool(PoolClosed)
    /\ lastop' = NoOp
    /\ UNCHANGED destroyed
    /\ UNCHANGED <<owner, m_status, master_err_is_logged, persistpoolmax, persistmaxtime,
                   n_current, now, pc, dcb, ret, cleanup_pending, fx>>
    /\ LifeRest

\* The destruction that deactivate has scheduled: it runs once no in-flight
\* connection refers to the server.
Retire ==
    /\ Usable
    /\ ~is_active
    /\ Quiet
    /\ RefCount = 0
    /\ destroyed' = TRUE
    /\ life_call' = "retire"
    /\ UNCHANGED is_active
    /\ UNCHANGED poolvars
    /\ LifeRest

\* The credentials a configuration gives the server: a pair, or a user
\* without a password.
LifeCredentials == {<<<<"a">>, <<"b">>>>, <<<<"a">>, <<>>>>}

\* The pool settings of the configuration allow pooling.
InitLife ==
    /\ PoolInit
    /\ persistpoolmax = MaxPoolMax
    /\ persistmaxtime = MaxPersistTime
    /\ sample_max = MaxSampleInit
    /\ m_ave = 0
    /\ rt = NoCall
    /\ CfgInit

\* The router selects an active server only when it opens a connection; a
\* session that runs can still ask a server that is being drained for a
\* pooled connection and release the connections it uses.
NextLife ==
    \/ \E c \in LifeCredentials, ssl_ok \in BOOLEAN, mem_ok \in BOOLEAN :
           server_alloc(c[1], c[2], SomeAddress, ssl_ok, mem_ok)
    \/ Deactivate
    \/ Retire
    \/ \E t \in Threads, d \in Dcbs : Usable /\ is_active /\ Open(t, d)
    \/ \E t \in Threads, d \in Dcbs, id \in Idents : Usable /\ Release(t, d, id[1], id[2])
    \/ \E t \in Threads, r \in Requests : Usable /\ FetchStart(t, r[1], r[2], r[3])
    \/ \E t \in Threads : Usable /\ FetchDec(t)
    \/ \E t \in Threads : Usable /\ FetchInc(t)
    \/ Usable /\ Resume

SpecLife == InitLife /\ [][NextLife]_vars

\* ----------------------------------------------------------------- version
\* The letters, for the comparison without case that strcasestr makes.
UpperCase == <<"A", "B", "C", "D", "E", "F", "G", "H", "I", "J", "K", "L", "M",
               "N", "O", "P", "Q", "R", "S", "T", "U", "V", "W", "X", "Y", "Z">>
LowerCase == <<"a", "b", "c", "d", "e", "f", "g", "h", "i", "j", "k", "l", "m",
               "n", "o", "p", "q", "r", "s", "t", "u", "v", "w", "x", "y", "z">>

\* Mutant: letters are compared as they are.
tolower_same(c) == c

tolower(c) ==
    IF \E i \in DOMAIN UpperCase : UpperCase[i] = c
    THEN LowerCase[CHOOSE i \in DOMAIN UpperCase : UpperCase[i] = c]
    ELSE c

\* Whether needle stands at position i of haystack, case ignored.
MatchAt(haystack, needle, i) ==
    \A j \in 1 .. Len(needle) : tolower(haystack[i + j - 1]) = tolower(needle[j])

\* strcasestr(haystack, needle): the position of the first occurrence of
\* needle in haystack, or NULL.
RECURSIVE ScanFrom(_, _, _)
ScanFrom(haystack, needle, i) ==
    IF i + Len(needle) - 1 > Len(haystack) THEN NULL
    ELSE IF MatchAt(haystack, needle, i) THEN i
    ELSE ScanFrom(haystack, needle, i + 1)

strcasestr(haystack, needle) == ScanFrom(haystack, needle, 1)

\* The two names VersionInfo::set looks for.
clustrix == <<"c", "l", "u", "s", "t", "r", "i", "x">>
mariadb == <<"m", "a", "r", "i", "a", "d", "b">>

\* The type VersionInfo::set stores for a version string.
TypeOf(version_str) ==
    IF strcasestr(version_str, clustrix) # NULL THEN CLUSTRIX
    ELSE IF strcasestr(version_str, mariadb) # NULL THEN MARIADB
    ELSE MYSQL

\* The numeric version VersionInfo::set stores: total, major, minor, patch.
Decompose(version) ==
    LET major == version \div 10000
        minor == (version - major * 10000) \div 100
        patch == version - major * 10000 - minor * 100
    IN  [total |-> version, major |-> major, minor |-> minor, patch |-> patch]

VerRest == UNCHANGED <<poolvars, rtvars, statusvars, monvars, filevars, paramvars, mutexvars,
                       lifevars, addrvars, vsetvars, convvars, valvars, usersvars>>

\* Server::VersionInfo::set(version, version_str), under m_lock.
VersionSet(version, version_str) ==
    /\ m_version_num' = Decompose(version)
    /\ m_version_str' = careful_strcpy(m_version_str, MAX_VERSION_LEN, version_str)
    /\ m_type' = TypeOf(version_str)
    /\ ver_call' = [op |-> "set", version |-> version, str |-> version_str,
                    old_type |-> m_type]
    /\ VerRest

\* The pieces version strings are put together from.
Words == {<<"5", ".", "7", ".", "2", "1">>,
          <<"M", "A", "R", "I", "A", "D", "B">>,
          <<"-", "C", "l", "u", "s", "t", "r", "i", "x">>,
          <<"M", "a", "r", "i", "a">>,
          <<"D", "B">>}

\* The three version strings of the scenario.
MariaDBExample == <<"5", ".", "5", ".", "5", "-", "1", "0", ".", "3", ".", "1",
                    "-", "M", "a", "r", "i", "a", "D", "B">>
ClustrixExample == <<"5", ".", "7", ".", "2", "1", "-", "C", "l", "u", "s", "t", "r", "i", "x">>
MySQLExample == <<"5", ".", "7", ".", "2", "1">>

RECURSIVE Join(_)
Join(ws) == IF ws = <<>> THEN <<>> ELSE Head(ws) \o Join(Tail(ws))

\* The version strings a monitor reports: at most MaxWords pieces, and the
\* scenario's MariaDB string.
VersionStrings ==
    {Join(ws) : ws \in UNION {[1 .. k -> Words] : k \in 0 .. MaxWords}} \cup {MariaDBExample}

\* The numeric versions a monitor reports: 5.7.21 and 10.3.1.
Versions == {50721, 100301}

InitVersion == InitStatus

NextVersion == \E version \in Versions, version_str \in VersionStrings :
                   VersionSet(version, version_str)

SpecVersion == InitVersion /\ [][NextVersion]_vars

\* ----------------------------------------------------------------- address
\* The addresses a configuration gives: up to one character too long.
AddressStrings == StringsUpTo(MAX_ADDRESS_LEN + 1)

AddrRest == UNCHANGED <<poolvars, rtvars, statusvars, monvars, filevars, paramvars, mutexvars,
                        lifevars, vervars, vsetvars, convvars, valvars, usersvars>>

\* Mutant: an over-long address is cut and stored, as server_alloc does.
AddressUpdate_truncate(buf, new_address) ==
    [buf |-> careful_strcpy(buf, MAX_ADDRESS_LEN, new_address), rval |-> TRUE,
     log |-> IF Len(new_address) > MAX_ADDRESS_LEN THEN "warning" ELSE "none"]

\* SERVER::server_update_address(new_address) on the char array buf: the new
\* array, the value returned and what is logged.
AddressUpdate(buf, new_address) ==
    IF Len(new_address) <= MAX_ADDRESS_LEN
    THEN [buf |-> careful_strcpy(buf, MAX_ADDRESS_LEN, new_address), rval |-> TRUE,
          log |-> "none"]
    ELSE [buf |-> buf, rval |-> FALSE, log |-> "error"]

\* A call of SERVER::server_update_address on the created server.
server_update_address(new_address) ==
    /\ server = "created"
    /\ address' = AddressUpdate(address, new_address).buf
    /\ addr_call' = [op |-> "server_update_address", arg |-> new_address,
                     rval |-> AddressUpdate(address, new_address).rval,
                     log |-> AddressUpdate(address, new_address).log,
                     old |-> address]
    /\ AddrRest

InitAddress == InitStatus

NextAddress ==
    \/ \E addr \in AddressStrings, ssl_ok \in BOOLEAN, mem_ok \in BOOLEAN :
           server_alloc(<<>>, <<>>, addr, ssl_ok, mem_ok)
    \/ \E new_address \in AddressStrings : server_update_address(new_address)

SpecAddress == InitAddress /\ [][NextAddress]_vars

\* ------------------------------------------------ concurrent version updates
\* The statements of Server::VersionInfo::set, in order: the Guard takes
\* m_lock, total is stored, major, minor and patch are assigned, the string is
\* copied, the type is assigned, and the Guard releases m_lock on return.
SetSteps == <<"lock", "total", "major", "minor", "patch", "str", "type", "unlock">>

\* The statement that follows statement p.
AfterStep(p) ==
    LET i == CHOOSE j \in DOMAIN SetSteps : SetSteps[j] = p
    IN  IF i = Len(SetSteps) THEN "idle" ELSE SetSteps[i + 1]

\* The calls the monitors make: a MySQL 5.7.21 and a MariaDB 10.3.1.
SetCalls == {<<50721, MySQLExample>>, <<100301, MariaDBExample>>}

\* The reader is between its first and its last accessor.
Reading == rd.pc \in {"num", "type", "str"}

\* A statement of set that runs while the reader is reading.
SeenByReader == rd' = IF Reading THEN [rd EXCEPT !.overlap = TRUE] ELSE rd

VsRest == UNCHANGED <<poolvars, rtvars, statusvars, monvars, filevars, paramvars, lifevars,
                      addrvars, convvars, valvars, usersvars, mx_op, mx_pos>>

\* A thread calls VersionInfo::set(version, version_str).
VsCall(t, version, version_str) ==
    /\ vs_pc[t] = "idle"
    /\ vs_pc' = [vs_pc EXCEPT ![t] = "lock"]
    /\ vs_arg' = [vs_arg EXCEPT ![t] = [version |-> version, str |-> version_str,
                                        contended |-> mutex[VersionLock] # NoThread]]
    /\ SeenByReader
    /\ UNCHANGED <<vervars, mutex>>
    /\ VsRest

\* Mutant: the body runs without m_lock.
VsLock_nolock(t) ==
    /\ vs_pc[t] = "lock"
    /\ vs_pc' = [vs_pc EXCEPT ![t] = AfterStep("lock")]
    /\ ver_call' = [op |-> "set", version |-> vs_arg[t].version, str |-> vs_arg[t].str,
                    old_type |-> m_type]
    /\ SeenByReader
    /\ UNCHANGED <<m_version_num, m_version_str, m_type, vs_arg, mutex>>
    /\ VsRest

\* Guard lock(m_lock): the thread waits until the lock is free and takes it.
VsLock(t) ==
    /\ vs_pc[t] = "lock"
    /\ mutex[VersionLock] = NoThread
    /\ mutex' = [mutex EXCEPT ![VersionLock] = t]
    /\ vs_pc' = [vs_pc EXCEPT ![t] = AfterStep("lock")]
    /\ ver_call' = [op |-> "set", version |-> vs_arg[t].version, str |-> vs_arg[t].str,
                    old_type |-> m_type]
    /\ SeenByReader
    /\ UNCHANGED <<m_version_num, m_version_str, m_type, vs_arg>>
    /\ VsRest

\* The field that statement p of set assigns.
VsAssign(t, p) ==
    LET d == Decompose(vs_arg[t].version)
    IN  /\ m_version_num' =
              CASE p = "total" -> [m_version_num EXCEPT !.total = d.total]
                [] p = "major" -> [m_version_num EXCEPT !.major = d.major]
                [] p = "minor" -> [m_version_num EXCEPT !.minor = d.minor]
                [] p = "patch" -> [m_version_num EXCEPT !.patch = d.patch]
                [] OTHER -> m_version_num
        /\ m_version_str' = IF p = "str"
                            THEN careful_strcpy(m_version_str, MAX_VERSION_LEN, vs_arg[t].str)
                            ELSE m_version_str
        /\ m_type' = IF p = "type" THEN TypeOf(vs_arg[t].str) ELSE m_type

\* One of the assignments of set.
VsStore(t) ==
    /\ vs_pc[t] \in {"total", "major", "minor", "patch", "str", "type"}
    /\ VsAssign(t, vs_pc[t])
    /\ vs_pc' = [vs_pc EXCEPT ![t] = AfterStep(vs_pc[t])]
    /\ SeenByReader
    /\ UNCHANGED <<ver_call, vs_arg, mutex>>
    /\ VsRest

\* set returns: the Guard releases m_lock if this thread holds it.
VsReturn(t) ==
    /\ vs_pc[t] = "unlock"
    /\ mutex' = [mutex EXCEPT ![VersionLock] = IF @ = t THEN NoThread ELSE @]
    /\ vs_pc' = [vs_pc EXCEPT ![t] = "idle"]
    /\ SeenByReader
    /\ UNCHANGED <<vervars, vs_arg>>
    /\ VsRest

\* Some thread is inside set.
Setting == \E t \in Threads : vs_pc[t] # "idle"

\* The reader of a behaviour starts at some moment: it will call
\* version_num(), type() and version_string(), none of which takes m_lock.
ReadStart ==
    /\ rd.pc = "idle"
    /\ rd' = [NoRead EXCEPT !.pc = "num", !.overlap = Setting, !.call = ver_call]
    /\ UNCHANGED <<vervars, vs_pc, vs_arg, mutex>>
    /\ VsRest

\* Server::VersionInfo::version_num(), type() and version_string()
ReadField ==
    /\ Reading
    /\ rd' = CASE rd.pc = "num" -> [rd EXCEPT !.num = m_version_num, !.pc = "type"]
               [] rd.pc = "type" -> [rd EXCEPT !.type = m_type, !.pc = "str"]
               [] rd.pc = "str" -> [rd EXCEPT !.str = CStr(m_version_str), !.pc = "done"]
    /\ UNCHANGED <<vervars, vs_pc, vs_arg, mutex>>
    /\ VsRest

InitVset == InitStatus

NextVset ==
    \/ \E t \in Threads, c \in SetCalls : VsCall(t, c[1], c[2])
    \/ \E t \in Threads : VsLock(t)
    \/ \E t \in Threads : VsStore(t)
    \/ \E t \in Threads : VsReturn(t)
    \/ ReadStart
    \/ ReadField

SpecVset == InitVset /\ [][NextVset]_vars

\* -------------------------------------------------------- typed parameters
\* Text is a sequence of characters. The two quote characters:
DQ == "\""
SQ == "'"

\* The words config_truth_value takes for true and for false.
TrueWords == {<<"t", "r", "u", "e">>, <<"o", "n">>, <<"y", "e", "s">>, <<"1">>}
FalseWords == {<<"f", "a", "l", "s", "e">>, <<"o", "f", "f">>, <<"n", "o">>, <<"0">>}

\* The text with every letter in lower case.
Lowered(text) == [i \in DOMAIN text |-> tolower(text[i])]

\* config_truth_value(str): 1, 0, or -1 for a text that is no truth value.
config_truth_value(str) ==
    IF Lowered(str) \in TrueWords THEN 1
    ELSE IF Lowered(str) \in FalseWords THEN 0
    ELSE -1

\* ParamBool::from_string: whether the text is valid, and the value parsed.
ParamBool_from_string(value_as_string) ==
    LET rv == config_truth_value(value_as_string)
    IN  [valid |-> rv # -1, value |-> rv = 1]

\* ParamBool::to_string
ParamBool_to_string(value) ==
    IF value THEN <<"t", "r", "u", "e">> ELSE <<"f", "a", "l", "s", "e">>

\* The decimal digits.
Digits == <<"0", "1", "2", "3", "4", "5", "6", "7", "8", "9">>
IsDigit(c) == \E i \in DOMAIN Digits : Digits[i] = c
DigitValue(c) == (CHOOSE i \in DOMAIN Digits : Digits[i] = c) - 1

\* std::to_string(value) of a count
RECURSIVE ParamCount_to_string(_)
ParamCount_to_string(value) ==
    IF value < Len(Digits) THEN <<Digits[value + 1]>>
    ELSE ParamCount_to_string(value \div Len(Digits)) \o <<Digits[(value % Len(Digits)) + 1]>>

\* The digits of z from position i on: the number they add to acc and the
\* position of the first character that is no digit.
RECURSIVE ScanDigits(_, _, _)
ScanDigits(z, i, acc) ==
    IF i <= Len(z) /\ IsDigit(z[i])
    THEN ScanDigits(z, i + 1, acc * Len(Digits) + DigitValue(z[i]))
    ELSE [l |-> acc, end |-> i]

\* strtol(zValue, &zEnd, 10): blanks are skipped, a sign is taken, then the
\* digits; without a digit nothing is consumed and zEnd is zValue.
RECURSIVE SkipBlanks(_, _)
SkipBlanks(z, i) == IF i <= Len(z) /\ z[i] = " " THEN SkipBlanks(z, i + 1) ELSE i

strtol(zValue) ==
    LET i == SkipBlanks(zValue, 1)
        signed == i <= Len(zValue) /\ zValue[i] \in {"+", "-"}
        j == IF signed THEN i + 1 ELSE i
        d == ScanDigits(zValue, j, 0)
    IN  IF d.end = j THEN [l |-> 0, end |-> 1]
        ELSE [l |-> IF signed /\ zValue[i] = "-" THEN 0 - d.l ELSE d.l, end |-> d.end]

\* ParamCount::from_string
ParamCount_from_string(value_as_string) ==
    LET r == strtol(value_as_string)
        valid == r.l >= 0 /\ r.end # 1 /\ r.end = Len(value_as_string) + 1
    IN  [valid |-> valid, value |-> IF valid THEN r.l ELSE 0]

\* ParamString::from_string: a text that begins with a quote must end with
\* the same quote and loses both; any other text is taken as it is.
ParamString_from_string(value_as_string) ==
    LET b == IF value_as_string = <<>> THEN NUL ELSE Head(value_as_string)
        e == IF value_as_string = <<>> THEN NUL ELSE value_as_string[Len(value_as_string)]
        quoted == b = DQ \/ b = SQ
        valid == quoted => b = e
    IN  [valid |-> valid,
         value |-> IF ~quoted THEN value_as_string
                   ELSE IF valid THEN SubSeq(value_as_string, 2, Len(value_as_string) - 1)
                   ELSE <<>>]

\* Mutant: the text of a string is the string itself.
ParamString_to_string_bare(value) == value

\* ParamString::to_string
ParamString_to_string(value) == <<DQ>> \o value \o <<DQ>>

\* The strings that are converted: quotes and a letter.
StringChars == {DQ, SQ, "a"}
ParamStrings == UNION {[1 .. k -> StringChars] : k \in 0 .. MaxStringLen}

ConvRest == UNCHANGED <<poolvars, rtvars, statusvars, monvars, filevars, paramvars, mutexvars,
                        lifevars, vervars, addrvars, vsetvars, valvars, usersvars>>

\* What a round of to_string and from_string leaves behind.
Converted(param, text, back, same) ==
    [param |-> param, text |-> text, valid |-> back.valid, same |-> back.valid /\ same]

\* A boolean is written with to_string and read with from_string.
BoolRound(value) ==
    /\ conv_call' = LET text == ParamBool_to_string(value)
                        back == ParamBool_from_string(text)
                    IN  Converted("ParamBool", text, back, back.value = value)
    /\ ConvRest

\* A count is written with to_string and read with from_string.
CountRound(value) ==
    /\ conv_call' = LET text == ParamCount_to_string(value)
                        back == ParamCount_from_string(text)
                    IN  Converted("ParamCount", text, back, back.value = value)
    /\ ConvRest

\* A string is written with to_string and read with from_string.
StringRound(value) ==
    /\ conv_call' = LET text == ParamString_to_string(value)
                        back == ParamString_from_string(text)
                    IN  Converted("ParamString", text, back, back.value = value)
    /\ ConvRest

InitConv == InitStatus

NextConv ==
    \/ \E value \in BOOLEAN : BoolRound(value)
    \/ \E value \in 0 .. MaxCount : CountRound(value)
    \/ \E value \in ParamStrings : StringRound(value)

SpecConv == InitConv /\ [][NextConv]_vars

\* --------------------------------------------------- Specification::validate
\* The names parameters can have.
ParamNames == 1 .. MaxParams

\* Param::Kind, and the classes of typed parameters.
MANDATORY == "MANDATORY"
OPTIONAL == "OPTIONAL"
ParamTypes == {"ParamBool", "ParamCount", "ParamString"}

\* The values a configuration gives: a boolean, a count and a string whose
\* quote is not closed.
ValueTexts == {<<"t", "r", "u", "e">>, <<"7">>, <<SQ, "a">>}

\* pParam->validate(value, &message) of each class: from_string succeeds.
ParamValidate(type, value_as_string) ==
    CASE type = "ParamBool" -> ParamBool_from_string(value_as_string).valid
      [] type = "ParamCount" -> ParamCount_from_string(value_as_string).valid
      [] type = "ParamString" -> ParamString_from_string(value_as_string).valid

\* The names of a map in the order std::map iterates them.
RECURSIVE InOrder(_)
InOrder(names) ==
    IF names = {} THEN <<>>
    ELSE LET n == CHOOSE x \in names : \A y \in names : x <= y
         IN  <<n>> \o InOrder(names \ {n})

\* The first loop of validate over the names still to visit: valid and the
\* set provided at its end.
RECURSIVE ParamLoop(_, _, _, _, _)
ParamLoop(spec, params, names, valid, provided) ==
    IF names = <<>> THEN [valid |-> valid, provided |-> provided]
    ELSE LET name == Head(names)
         IN  IF name \in DOMAIN spec
             THEN ParamLoop(spec, params, Tail(names),
                            valid /\ ParamValidate(spec[name].type, params[name]),
                            provided \cup {name})
             ELSE ParamLoop(spec, params, Tail(names), FALSE, provided)

\* The second loop of validate over the declared parameters still to visit.
RECURSIVE MandatoryLoop(_, _, _, _)
MandatoryLoop(spec, names, valid, provided) ==
    IF names = <<>> THEN valid
    ELSE MandatoryLoop(spec, Tail(names),
                       IF spec[Head(names)].kind = MANDATORY /\ Head(names) \notin provided
                       THEN FALSE ELSE valid,
                       provided)

\* Mutant: a mandatory parameter that is missing is not looked for.
Specification_validate_nomandatory(spec, params) ==
    ParamLoop(spec, params, InOrder(DOMAIN params), TRUE, {}).valid

\* Specification::validate(params) on the specification spec
Specification_validate(spec, params) ==
    LET first == ParamLoop(spec, params, InOrder(DOMAIN params), TRUE, {})
    IN  MandatoryLoop(spec, InOrder(DOMAIN spec), first.valid, first.provided)

ValRest == UNCHANGED <<poolvars, rtvars, statusvars, monvars, filevars, paramvars, mutexvars,
                       lifevars, vervars, addrvars, vsetvars, convvars, usersvars>>

\* Specification::insert(pParam), called by the constructor of a Param.
SpecificationInsert(name, kind, type) ==
    /\ name \notin DOMAIN m_params
    /\ m_params' = [n \in DOMAIN m_params \cup {name} |->
                       IF n = name THEN [kind |-> kind, type |-> type] ELSE m_params[n]]
    /\ val_call' = NoValCall
    /\ ValRest

\* Specification::remove(pParam), called by the destructor of a Param.
SpecificationRemove(name) ==
    /\ name \in DOMAIN m_params
    /\ m_params' = [n \in DOMAIN m_params \ {name} |-> m_params[n]]
    /\ val_call' = NoValCall
    /\ ValRest

\* A call of Specification::validate, a const member function.
Validate(params) ==
    /\ val_call' = [op |-> "validate", params |-> params, spec |-> m_params,
                    rval |-> Specification_validate(m_params, params)]
    /\ UNCHANGED m_params
    /\ ValRest

\* The parameters a configuration supplies: some names, each with a value.
SuppliedParams == UNION {[names -> ValueTexts] : names \in SUBSET ParamNames}

InitValidate == InitStatus

NextValidate ==
    \/ \E name \in ParamNames, kind \in {MANDATORY, OPTIONAL}, type \in ParamTypes :
           SpecificationInsert(name, kind, type)
    \/ \E name \in ParamNames : SpecificationRemove(name)
    \/ \E params \in SuppliedParams : Validate(params)

SpecValidate == InitValidate /\ [][NextValidate]_vars


\* ---------------------------------------------------------------------------
\* the users table
\* ---------------------------------------------------------------------------

\* The user names and authentication data the calls are made with.
UserNames == {<<"a">>, <<"b">>}
AuthData == {<<"x">>, <<"y">>}

\* What an int that was never written can hold.
Indeterminate == (0 - MaxGarbage) .. MaxGarbage

\* hashtable_add: a key that is absent is stored and 1 is returned; a key
\* that is present leaves the table alone and 0 is returned.
hashtable_add(table, key, value) ==
    IF key \in DOMAIN table
    THEN [table |-> table, rval |-> 0]
    ELSE [table |-> [k \in DOMAIN table \cup {key} |->
                        IF k = key THEN value ELSE table[k]],
          rval |-> 1]

\* hashtable_delete: a key that is present is removed and 1 is returned; a
\* key that is absent leaves the table alone and 0 is returned.
hashtable_delete(table, key) ==
    IF key \in DOMAIN table
    THEN [table |-> [k \in DOMAIN table \ {key} |-> table[k]], rval |-> 1]
    ELSE [table |-> table, rval |-> 0]

\* hashtable_fetch: the value stored under the key, or NULL.
hashtable_fetch(table, key) ==
    IF key \in DOMAIN table THEN table[key] ELSE NoStr

UsersRest == UNCHANGED <<poolvars, rtvars, statusvars, monvars, filevars, paramvars, mutexvars,
                         lifevars, vervars, addrvars, vsetvars, convvars, valvars>>

\* users_alloc: malloc hands out the USERS structure, the hashtable is
\* allocated into data and its memory functions are set; stats is never
\* written, so each counter holds whatever the memory held.
users_alloc ==
    /\ users = "none"
    /\ users' = "allocated"
    /\ users_data' = NoUsers
    /\ \E e \in Indeterminate, a \in Indeterminate, d \in Indeterminate, f \in Indeterminate :
          stats' = [n_entries |-> e, n_adds |-> a, n_deletes |-> d, n_fetches |-> f]
    /\ UNCHANGED <<users_call, users_made>>
    /\ UsersRest

\* users_add: n_adds is counted, the hashtable is asked to add, what it
\* returns is added to n_entries and returned.
users_add(user, auth) ==
    /\ users = "allocated"
    /\ users_made.adds < MaxUsersCalls
    /\ LET add == hashtable_add(users_data, user, auth) IN
          /\ users_data' = add.table
          /\ stats' = [stats EXCEPT !.n_adds = @ + 1, !.n_entries = @ + add.rval]
          /\ users_call' = [op |-> "add", user |-> user, rval |-> add.rval,
                            old_data |-> users_data, old_entries |-> stats.n_entries]
    /\ users_made' = [users_made EXCEPT !.adds = @ + 1]
    /\ UNCHANGED users
    /\ UsersRest

\* users_delete: n_deletes is counted, the hashtable is asked to delete,
\* what it returns is taken from n_entries and returned.
users_delete(user) ==
    /\ users = "allocated"
    /\ users_made.deletes < MaxUsersCalls
    /\ LET del == hashtable_delete(users_data, user) IN
          /\ users_data' = del.table
          /\ stats' = [stats EXCEPT !.n_deletes = @ + 1, !.n_entries = @ + del.rval * (0 - 1)]
          /\ users_call' = [op |-> "delete", user |-> user, rval |-> del.rval,
                            old_data |-> users_data, old_entries |-> stats.n_entries]
    /\ users_made' = [users_made EXCEPT !.deletes = @ + 1]
    /\ UNCHANGED users
    /\ UsersRest

\* users_fetch: n_fetches is counted and the hashtable's answer returned.
users_fetch(user) ==
    /\ users = "allocated"
    /\ users_made.fetches < MaxUsersCalls
    /\ stats' = [stats EXCEPT !.n_fetches = @ + 1]
    /\ users_call' = [op |-> "fetch", user |-> user, rval |-> 0,
                      old_data |-> users_data, old_entries |-> stats.n_entries]
    /\ users_made' = [users_made EXCEPT !.fetches = @ + 1]
    /\ UNCHANGED <<users, users_data>>
    /\ UsersRest

UsersAdd == \E user \in UserNames, auth \in AuthData : users_add(user, auth)
UsersDelete == \E user \in UserNames : users_delete(user)
UsersFetch == \E user \in UserNames : users_fetch(user)

InitUsers == InitStatus

NextUsers ==
    \/ users_alloc
    \/ UsersAdd
    \/ UsersDelete
    \/ UsersFetch

SpecUsers == InitUsers /\ [][NextUsers]_vars

\* ------------------------------------------------------------ the claims
Fetched == ret.kind = "fetch"

NoDup(s) == Cardinality(SeqToSet(s)) = Len(s)

InUse == {d \in Dcbs : owner[d] # NoThread}

\* The fetch that has just returned directly followed, on the same worker, a
\* release made for the user, peer address and protocol it asks for.
AfterSameRelease ==
    /\ Fetched
    /\ ret.prev.kind = "release"
    /\ ret.prev.thread = ret.thread
    /\ ret.prev.user = ret.fx.user
    /\ ret.prev.ip = ret.fx.ip
    /\ ret.fx.protocol = ServerProtocol

\* C1: a fetch by worker t returns (and unlinks) only a connection that was
\* released on t, and every list holds only connections released on its own
\* worker.
C1_FetchOwnBucket ==
    /\ Fetched /\ ret.result # NULL => ret.released_on = ret.thread
    /\ \A t \in Threads : pc[t] \in {"dec", "inc"} => released_on[dcb[t]] = t
    /\ \A t \in Threads : \A d \in SeqToSet(Bucket(t)) : released_on[d] = t

\* A fetch returned a connection while another worker's list held one too.
C1_Witness ==
    /\ Fetched
    /\ ret.result # NULL
    /\ \E u \in Threads \ {ret.thread} : persistent[u] # NULL

\* C2 as stated: a fetch that follows a release for the same user, peer and
\* protocol on the same worker returns a connection unless persistpoolmax is
\* 0 or more than persistmaxtime has passed between the two (persistmaxtime 0,
\* which disables the pool, is taken as passed).
C2_Original ==
    (AfterSameRelease /\ persistpoolmax # 0 /\ persistmaxtime # 0
        /\ ret.prev.idle <= persistmaxtime)
        => ret.result # NULL

\* C2 amended: such a fetch returns a connection if the release put the
\* connection into the pool, the connection has not erred since, no more than
\* persistmaxtime has passed and the server is running when the fetch checks it.
C2_RoundTrip ==
    (AfterSameRelease /\ ret.prev.pooled /\ ~ret.prev.erred
        /\ ret.prev.idle <= persistmaxtime /\ ret.fx.running)
        => ret.result # NULL

\* A fetch got the connection its worker had just released.
C2_Witness ==
    /\ AfterSameRelease
    /\ ret.prev.pooled
    /\ ret.result # NULL

\* C3: a connection in use is linked in no list and is not being handed out, a
\* connection being handed out is linked in no list, no connection is linked
\* twice, and after a fetch returned the only entry its request matched, the
\* same request made next on that worker gets none.
C3_ExclusiveOwner ==
    /\ \A d \in InUse : d \notin Linked /\ ~InTransit(d)
    /\ \A d \in Dcbs : InTransit(d) => d \notin Linked
    /\ \A t \in Threads : NoDup(Bucket(t))
    /\ \A t, u \in Threads : t # u => SeqToSet(Bucket(t)) \cap SeqToSet(Bucket(u)) = {}
    /\ \A t, u \in Threads : (t # u /\ pc[t] # "idle" /\ pc[u] # "idle") => dcb[t] # dcb[u]
    /\ Fetched /\ ret.result # NULL => owner[ret.result] = ret.thread
    /\ (Fetched /\ ret.prev.kind = "fetch" /\ ret.prev.thread = ret.thread
           /\ ret.prev.single /\ ret.prev.user = ret.fx.user /\ ret.prev.ip = ret.fx.ip
           /\ ret.fx.protocol = ServerProtocol)
          => ret.result = NULL

\* The second of two equal fetches returned none though the list still holds
\* another connection.
C3_Witness ==
    /\ Fetched
    /\ ret.prev.kind = "fetch"
    /\ ret.prev.thread = ret.thread
    /\ ret.prev.single
    /\ ret.prev.user = ret.fx.user
    /\ ret.prev.ip = ret.fx.ip
    /\ ret.fx.protocol = ServerProtocol
    /\ ret.result = NULL
    /\ persistent[ret.thread] # NULL

\* C4: the connection a fetch returns was stored with the requested user and
\* peer address, on a server of the requested protocol, and had not erred; and
\* a fetch of a running server returns the first such entry of the list,
\* wherever it is.
C4_FirstMatch ==
    Fetched =>
        /\ ret.result # NULL =>
              /\ ret.fx.found.user = ret.fx.user
              /\ ret.fx.found.remote = ret.fx.ip
              /\ ServerProtocol = ret.fx.protocol
              /\ ~ret.fx.found.err
        /\ ret.fx.running => ret.result = ret.fx.expect

\* A fetch returned the second entry of its list.
C4_Witness == Fetched /\ ret.result # NULL /\ ret.fx.steps = 2

\* C5: a fetch returns none if the server is not running when the fetch checks
\* it, and if no entry matches; a connection is returned only if the server
\* was running.
C5_NoneUnlessRunning ==
    Fetched =>
        /\ (~ret.fx.running \/ ret.fx.nmatch = 0) => ret.result = NULL
        /\ ret.result # NULL => ret.fx.running

\* A fetch of a stopped server returned none though an entry matches.
C5_Witness == Fetched /\ ~ret.fx.running /\ ret.fx.nmatch > 0 /\ ret.result = NULL

\* C6 as stated: a fetch of a server that is not running evicts nothing.
C6_Original == (Fetched /\ ~ret.fx.running) => ret.fx.evicted = 0

\* C6 amended: a fetch cleans the list whenever it is not empty, whether or
\* not the server is running: it evicts exactly the stale entries and lowers
\* the pool count by their number.
C6_CleansNonEmpty == Fetched => ret.fx.evicted = ret.fx.stale

\* A fetch of a stopped server evicted an entry.
C6_Witness == Fetched /\ ~ret.fx.running /\ ret.fx.evicted > 0

\* A step in which worker t sweeps its list: the CleanupTask, or a fetch
\* that found the list not empty.
SweepStep(t) ==
    \/ t \in cleanup_pending /\ t \notin cleanup_pending'
    \/ /\ persistent[t] # NULL
       /\ pc[t] = "idle"
       /\ \/ pc'[t] = "dec"
          \/ ret'.kind = "fetch" /\ ret'.thread = t

Fresh(t) == \A d \in SeqToSet(Bucket(t)) : ~Stale(d)

\* C7: with persistmaxtime not zero, after a sweep of list t (by the
\* CleanupTask or by a fetch) no entry left in the list has been idle for
\* longer than persistmaxtime or has erred.
C7_SweepLeavesFresh ==
    [][\A t \in Threads : (SweepStep(t) /\ persistmaxtime # 0) => Fresh(t)']_vars

\* A CleanupTask evicted an entry and left another one in the list.
C7_Witness ==
    /\ ret.kind = "cleanup"
    /\ ret.fx.evicted > 0
    /\ persistent[ret.thread] # NULL
    /\ persistmaxtime # 0

\* C8 as stated: the pool count and the count of connections in use always
\* agree with the lists and the connections in use.
C8_Original ==
    /\ n_persistent = Cardinality(Linked)
    /\ n_current = Cardinality(InUse)

\* C8 amended: each counter is changed by an atomic add of its own; the pool
\* count exceeds the number of linked connections by the number of fetches
\* between their unlink and their decrement, and the count of connections in
\* use is raised as the connection is returned.
C8_CountersPerStep ==
    /\ n_persistent = Cardinality(Linked) + Cardinality({t \in Threads : pc[t] = "dec"})
    /\ n_current = Cardinality(InUse)

\* Two fetches are between unlink and return at once.
C8_Witness == \E t, u \in Threads : pc[t] = "dec" /\ pc[u] = "inc"

\* C9 as stated: a call with num_samples at least the current sample_max
\* leaves a strictly greater sample_max.
C9_Original == (rt.called /\ rt.num_samples >= rt.old_max) => sample_max > rt.old_max

\* C9 amended: a call with num_samples at least the current sample_max leaves
\* a sample_max that is not smaller, and strictly greater if num_samples
\* exceeds the current sample_max or is at least 10.
C9_MaxNotLowered ==
    (rt.called /\ rt.num_samples >= rt.old_max) =>
        /\ sample_max >= rt.old_max
        /\ (rt.num_samples > rt.old_max \/ rt.num_samples >= 10) => sample_max > rt.old_max

\* A call with num_samples equal to a sample_max of at least 10 raised it.
C9_Witness ==
    /\ rt.called
    /\ rt.num_samples = rt.old_max
    /\ rt.old_max >= 10
    /\ sample_max > rt.old_max

C11_Original ==
    (status_call.op = "clear" /\ status_call.paired) => m_status = status_call.base

\* C11: set_status(M); clear_status(M) leaves the prior bitmask without M: it
\* restores the prior bitmask exactly when M was not set in it, and clears M
\* when M was already set.
C11_SetClearRemoves ==
    (status_call.op = "clear" /\ status_call.paired) =>
        /\ m_status = status_call.base \ {status_call.bit}
        /\ (status_call.bit \notin status_call.base => m_status = status_call.base)

C11_Witness ==
    /\ status_call.op = "clear"
    /\ status_call.paired
    /\ status_call.bit \notin status_call.base
    /\ status_call.base # {}
    /\ m_status = status_call.base

\* C12 as stated: after clear_status(MASTER) the flag master_err_is_logged is
\* false whatever its value was before.
C12_Original ==
    (status_call.op = "clear" /\ status_call.bit = SERVER_MASTER) => ~master_err_is_logged

\* C12: clear_status only removes the bit (AND-NOT) and leaves
\* master_err_is_logged as it was; set_status only adds the bit (OR) and
\* clears master_err_is_logged when the server is master after the call,
\* leaving it as it was otherwise.
C12_FlagClearedBySet ==
    /\ status_call.op = "clear" =>
          /\ m_status = status_call.old_status \ {status_call.bit}
          /\ master_err_is_logged = status_call.old_logged
    /\ status_call.op = "set" =>
          /\ m_status = status_call.old_status \cup {status_call.bit}
          /\ master_err_is_logged = (status_call.old_logged /\ ~is_master)

C12_Witness ==
    /\ status_call.op = "clear"
    /\ status_call.bit = SERVER_MASTER
    /\ SERVER_MASTER \in status_call.old_status
    /\ status_call.old_logged
    /\ master_err_is_logged

\* The monitor user and password the server stores.
StoredUser == CStr(monuser)
StoredPw == CStr(monpw)

\* C13: set_monitor_user and set_monitor_password given a string longer than
\* the maximum return failure and leave both stored values as they were, also
\* when the failing call is repeated; a string of at most the maximum length
\* is accepted and stored exactly, the other value left as it was.
C13_RejectTooLong ==
    /\ mon_call.op = "set_monitor_user" =>
          /\ Len(mon_call.user) > MAX_MONUSER_LEN =>
                ~mon_call.rval /\ monuser = mon_call.old_user
          /\ Len(mon_call.user) <= MAX_MONUSER_LEN =>
                mon_call.rval /\ StoredUser = mon_call.user
          /\ monpw = mon_call.old_pw
    /\ mon_call.op = "set_monitor_password" =>
          /\ Len(mon_call.pw) > MAX_MONPW_LEN =>
                ~mon_call.rval /\ monpw = mon_call.old_pw
          /\ Len(mon_call.pw) <= MAX_MONPW_LEN =>
                mon_call.rval /\ StoredPw = mon_call.pw
          /\ monuser = mon_call.old_user

C13_Witness ==
    /\ mon_call.op = "set_monitor_user"
    /\ Len(mon_call.user) > MAX_MONUSER_LEN
    /\ mon_call.repeated
    /\ ~mon_call.rval
    /\ StoredUser # <<>>

\* C14 as stated: creating a server fails exactly when one of monitor user /
\* monitor password is non-empty and the other is empty.
C14_Original ==
    mon_call.op = "server_alloc" =>
        (~mon_call.rval <=> OneDefined(mon_call.user, mon_call.pw))

\* C14: creating a server with one of monitor user / monitor password
\* non-empty and the other empty fails before any allocation or mutation and
\* produces no server; a server that is produced was given both or neither
\* (creation also fails when the SSL setup or an allocation fails).
C14_PairingChecked ==
    mon_call.op = "server_alloc" =>
        /\ OneDefined(mon_call.user, mon_call.pw) =>
              /\ ~mon_call.rval
              /\ ~mon_call.allocated
              /\ server = "none"
              /\ monuser = mon_call.old_user
              /\ monpw = mon_call.old_pw
        /\ mon_call.rval => ~OneDefined(mon_call.user, mon_call.pw)
        /\ mon_call.rval <=> server = "created"

C14_Witness ==
    /\ mon_call.op = "server_alloc"
    /\ mon_call.user = <<>>
    /\ mon_call.pw # <<>>
    /\ server = "none"

\* C15 as stated: creating a server whose monitor user or monitor password
\* exceeds the maximum length fails as a whole: no server is created.
C15_Original ==
    (/\ mon_call.op = "server_alloc"
     /\ \/ Len(mon_call.user) > MAX_MONUSER_LEN
        \/ Len(mon_call.pw) > MAX_MONPW_LEN)
    => (~mon_call.rval /\ server = "none")

Kept(s, max_len) == IF Len(s) <= max_len THEN s ELSE <<>>

C17_Original ==
    /\ files[FinalPath].exists => Complete(files[FinalPath])
    /\ (file_call.op = "serialize" /\ file_call.failed = "open") => ~file_call.existed

\* C18 as stated: if creating the temporary file, writing the text to it or
\* renaming it fails, the persistence call returns failure, the final path
\* is not replaced and the configuration in memory is unchanged.
C18_Original ==
    (file_call.op = "serialize" /\ file_call.failed # "none") =>
        /\ ~file_call.rval
        /\ files[FinalPath] = file_call.old_final
        /\ config = file_call.old_config

\* C19: create_server_config on a path that already exists fails and leaves
\* the content of the path as it was.
C19_ExclusiveCreate ==
    (file_call.op = "create_server_config" /\ file_call.existed) =>
        /\ ~file_call.rval
        /\ file_call.failed = "open"
        /\ files[file_call.path] = file_call.old_file

C19_Witness ==
    /\ file_call.op = "create_server_config"
    /\ file_call.existed
    /\ Complete(file_call.old_file)
    /\ file_call.old_file.ver # config
    /\ ~file_call.rval

\* C20 as stated: no read of a parameter container by get_custom_parameter,
\* json_attributes, create_server_config or print_to_dcb runs concurrently
\* with a write of set_custom_parameter to the same container.
C20_Original ==
    \A t1 \in Threads, t2 \in Threads, c \in {AllParameters, CustomParameters} :
        ~(/\ t1 # t2
          /\ param_op[t1] = "set_custom_parameter"
          /\ Accessing(t1, c, "write")
          /\ Accessing(t2, c, "read"))

StepOf(b) ==
    \/ b \in cleanup_pending /\ b \notin cleanup_pending'
    \/ pc[b] = "idle" /\ pc'[b] = "dec"
    \/ ret = NoRet /\ ret'.kind = "fetch" /\ ret'.thread = b
    \/ \E d \in Dcbs : owner[d] = b /\ owner'[d] = NoThread

\* C22: the broadcast gives one CleanupTask to every worker; the task on
\* worker t changes no list but persistent[t], and every change of a list is
\* made by a step of the worker the list belongs to.
C22_OwnBucketOnly ==
    [][/\ (cleanup_pending = {} /\ cleanup_pending' # {}) => cleanup_pending' = Threads
       /\ \A t \in Threads :
             (t \in cleanup_pending /\ t \notin cleanup_pending') =>
                 \A b \in Threads \ {t} : Bucket(b)' = Bucket(b)
       /\ \A b \in Threads : Bucket(b)' # Bucket(b) => StepOf(b)]_vars

\* A CleanupTask evicted an entry while another worker's list holds one.
C22_Witness ==
    /\ ret.kind = "cleanup"
    /\ ret.fx.evicted > 0
    /\ \E b \in Threads \ {ret.thread} : Bucket(b) # <<>>

\* C23: a sweep of list t run again right after the CleanupTask of worker t
\* evicts nothing and leaves the lists, the entries and the pool count as
\* they are.
C23_SweepIdempotent ==
    ret.kind = "cleanup" =>
        /\ SweepEvicted(ret.thread) = {}
        /\ [persistent_clean_count(ret.thread) EXCEPT !.count = 0] = PoolNow

\* A CleanupTask evicted an entry and kept another one in its list.
C23_Witness ==
    /\ ret.kind = "cleanup"
    /\ ret.fx.evicted > 0
    /\ Bucket(ret.thread) # <<>>
    /\ cleanup_pending = {}

\* C28: every list is finite and acyclic and no DCB is in two lists, the
\* scan of a fetch makes at most one iteration per entry of the worker's
\* list, and a sweep has at most the entries of the list to evict.
C28_BoundedByBucket ==
    /\ \A t \in Threads :
          /\ NoDup(Bucket(t))
          /\ Len(Bucket(t)) <= MaxDcb
          /\ pc[t] = "dec" => fx[t].steps <= Len(Bucket(t)) + 1
          /\ Cardinality(SweepEvicted(t)) <= Len(Bucket(t))
    /\ \A t, u \in Threads : t # u => SeqToSet(Bucket(t)) \cap SeqToSet(Bucket(u)) = {}
    /\ (ret.kind = "fetch" /\ ret.result = NULL) =>
          ret.fx.steps <= Len(Bucket(ret.thread))

\* A fetch scanned a list of two entries to its end and found nothing.
C28_Witness ==
    /\ ret.kind = "fetch"
    /\ ret.result = NULL
    /\ ret.fx.steps = 2
    /\ Len(Bucket(ret.thread)) = 2

\* The list of worker t as its fetch scans it: after the clean, if any.
Scanned(t) == IF FetchCleans(t) THEN SweepKept(t) ELSE Bucket(t)

\* What the clean of a fetch of worker t takes from the pool count.
CleanedBy(t) == IF FetchCleans(t) THEN Cardinality(SweepEvicted(t)) ELSE 0

\* Sequence s without the element d.
Without(s, d) == SelectSeq(s, LAMBDA e : e # d)

\* C29: when no fetch is under way the pool count equals the number of
\* connections linked in all lists; a fetch that finds a connection unlinks
\* that one entry and keeps the order of the others, then lowers the pool
\* count by one, then raises the count of connections in use by one; a
\* fetch that returns none leaves the count of connections in use alone and
\* takes from the pool count only what its clean evicted.
C29_CountMatchesLists ==
    /\ []((\A t \in Threads : pc[t] = "idle") => n_persistent = Cardinality(Linked))
    /\ [][\A t \in Threads :
             /\ (pc[t] = "idle" /\ pc'[t] = "dec") =>
                   /\ dcb'[t] \in SeqToSet(Scanned(t))
                   /\ Bucket(t)' = Without(Scanned(t), dcb'[t])
                   /\ n_persistent' = n_persistent - CleanedBy(t)
                   /\ n_current' = n_current
             /\ (pc[t] = "dec" /\ pc'[t] = "inc") =>
                   /\ n_persistent' = n_persistent - 1
                   /\ n_current' = n_current
                   /\ Bucket(t)' = Bucket(t)
             /\ (pc[t] = "inc" /\ pc'[t] = "idle") =>
                   /\ n_current' = n_current + 1
                   /\ n_persistent' = n_persistent
                   /\ Bucket(t)' = Bucket(t)
             /\ (ret = NoRet /\ ret'.kind = "fetch" /\ ret'.thread = t
                 /\ ret'.result = NULL) =>
                   /\ n_current' = n_current
                   /\ n_persistent' = n_persistent - CleanedBy(t)
                   /\ Bucket(t)' = Scanned(t)]_vars

\* A fetch has returned the second entry of a list of two.
C29_Witness ==
    /\ ret.kind = "fetch"
    /\ ret.result # NULL
    /\ \A t \in Threads : pc[t] = "idle"
    /\ Bucket(ret.thread) # <<>>
    /\ ret.fx.steps = 2
    /\ n_persistent = 1


\* C30 as stated: after any sequence of response_time_add calls with
\* non-negative sample counts, sample_max is at least 1.
C30_Original == sample_max >= 1

\* C24 as stated: from the moment the server is marked inactive, no fetch on
\* it hands out a pooled connection: a call of get_persistent_dcb that is
\* entered while is_active is false unlinks no entry for its caller.
C24_Original ==
    [][~is_active => \A t \in Threads : ~(pc[t] = "idle" /\ pc'[t] = "dec")]_vars

\* C25: the lifetime moves one stage forward at a time; the server becomes
\* Active (is_active, SERVER_RUNNING) only by a server_alloc that has passed
\* the pairing check and returned it, Draining only by deactivate, and
\* Retired only from Draining with no reference left.
C25_LifetimeOrder ==
    [][/\ Life' # Life =>
            <<Life, Life'>> \in {<<"Provisional", "Active">>, <<"Active", "Draining">>,
                                 <<"Draining", "Retired">>}
       /\ (Life' = "Active" /\ Life # "Active") =>
            /\ mon_call'.op = "server_alloc"
            /\ mon_call'.rval
            /\ ~OneDefined(mon_call'.user, mon_call'.pw)
            /\ is_active'
            /\ SERVER_RUNNING \in m_status'
       /\ (Life' = "Draining" /\ Life # "Draining") => life_call' = "deactivate"
       /\ (Life' = "Retired" /\ Life # "Retired") =>
            /\ Life = "Draining"
            /\ life_call' = "retire"
            /\ RefCount = 0]_vars

\* The server has gone through its whole lifetime, with a connection in use
\* when it was deactivated and a failed creation nowhere on the way.
C25_Witness ==
    /\ Life = "Retired"
    /\ life_call = "retire"
    /\ mon_call.op = "server_alloc"
    /\ mon_call.user # <<>>
    /\ \E d \in Dcbs : m_user[d] # NoStr

\* Two characters that are the same letter, whatever their case.
SameLetter(a, b) ==
    \/ a = b
    \/ \E i \in DOMAIN UpperCase : {a, b} = {UpperCase[i], LowerCase[i]}

\* The string s contains the name w, case ignored.
HasName(s, w) ==
    \E i \in 1 .. Len(s) :
        /\ i + Len(w) - 1 <= Len(s)
        /\ \A j \in 1 .. Len(w) : SameLetter(s[i + j - 1], w[j])

\* C26: the type VersionInfo::set leaves is a function of its version string
\* alone: CLUSTRIX if the string contains "clustrix" in any case, otherwise
\* MARIADB if it contains "mariadb" in any case, otherwise MYSQL; the three
\* strings of the scenario give MARIADB, CLUSTRIX and MYSQL.
C26_TypeByName ==
    ver_call.op = "set" =>
        /\ m_type = IF HasName(ver_call.str, clustrix) THEN CLUSTRIX
                    ELSE IF HasName(ver_call.str, mariadb) THEN MARIADB
                    ELSE MYSQL
        /\ ver_call.str = MariaDBExample => m_type = MARIADB
        /\ ver_call.str = ClustrixExample => m_type = CLUSTRIX
        /\ ver_call.str = MySQLExample => m_type = MYSQL

\* A version string with both names, in mixed and upper case, given to a
\* server whose type was MYSQL, and too long to be stored whole.
C26_Witness ==
    /\ ver_call.op = "set"
    /\ ver_call.old_type = MYSQL
    /\ HasName(ver_call.str, clustrix)
    /\ strcasestr(ver_call.str, mariadb) = 1
    /\ Len(ver_call.str) > MAX_VERSION_LEN
    /\ m_type = CLUSTRIX

\* The address the server has stored.
StoredAddress == CStr(address)

\* The first MAX_ADDRESS_LEN characters of an address.
Cut(addr) == SubSeq(addr, 1, IF Len(addr) > MAX_ADDRESS_LEN THEN MAX_ADDRESS_LEN ELSE Len(addr))

\* C27 as stated: an address longer than MAX_ADDRESS_LEN does not make the
\* operation fail and is stored cut to MAX_ADDRESS_LEN characters with a
\* warning, in server_alloc (when nothing else makes it fail) and in
\* server_update_address.
C27_Original ==
    (addr_call.op # "none" /\ Len(addr_call.arg) > MAX_ADDRESS_LEN) =>
        /\ addr_call.op = "server_update_address" => addr_call.rval
        /\ (addr_call.op = "server_update_address" \/ addr_call.rval) =>
               /\ StoredAddress = Cut(addr_call.arg)
               /\ addr_call.log = "warning"

\* C27 amended: the server that server_alloc returns has the address cut to
\* MAX_ADDRESS_LEN characters, and a warning is logged exactly when the
\* address was longer. server_update_address stores an
\* address of at most MAX_ADDRESS_LEN characters whole and returns true; a
\* longer one is refused: an error is logged, false is returned and the stored
\* address stays as it was.
C27_AllocCutsUpdateRefuses ==
    /\ addr_call.op = "server_alloc" =>
           /\ addr_call.rval = mon_call.rval
           /\ addr_call.rval =>
                  /\ StoredAddress = Cut(addr_call.arg)
                  /\ (addr_call.log = "warning") = (Len(addr_call.arg) > MAX_ADDRESS_LEN)
    /\ addr_call.op = "server_update_address" =>
           /\ addr_call.rval = (Len(addr_call.arg) <= MAX_ADDRESS_LEN)
           /\ addr_call.rval => StoredAddress = addr_call.arg /\ addr_call.log = "none"
           /\ ~addr_call.rval => address = addr_call.old /\ addr_call.log = "error"

\* server_update_address has refused an over-long address on a server that
\* server_alloc had returned with an over-long address cut to the maximum.
C27_Witness ==
    /\ addr_call.op = "server_update_address"
    /\ Len(addr_call.arg) > MAX_ADDRESS_LEN
    /\ ~addr_call.rval
    /\ Len(StoredAddress) = MAX_ADDRESS_LEN
    /\ StoredAddress # Cut(addr_call.arg)
    /\ mon_call.op = "server_alloc"
    /\ mon_call.rval

\* What a server shows after the call c of VersionInfo::set alone, or before
\* any call: the numeric version, the stored string and the type.
ShownAfter(c) ==
    IF c.op = "none"
    THEN [num |-> [total |-> 0, major |-> 0, minor |-> 0, patch |-> 0], str |-> <<>>,
          type |-> MARIADB]
    ELSE [num |-> [total |-> c.version, major |-> c.version \div 10000,
                   minor |-> (c.version % 10000) \div 100, patch |-> c.version % 100],
          str |-> SubSeq(c.str, 1, IF Len(c.str) > MAX_VERSION_LEN THEN MAX_VERSION_LEN
                                   ELSE Len(c.str)),
          type |-> IF HasName(c.str, clustrix) THEN CLUSTRIX
                   ELSE IF HasName(c.str, mariadb) THEN MARIADB ELSE MYSQL]

\* C31: when every call of VersionInfo::set has returned, the numeric version,
\* the string and the type are those of one call, the last one that took
\* m_lock, and total = major * 10000 + minor * 100 + patch; a reader that did
\* not run during a set has read the fields of one call.
C31_SetSerialized ==
    /\ ~Setting =>
          /\ m_version_num = ShownAfter(ver_call).num
          /\ CStr(m_version_str) = ShownAfter(ver_call).str
          /\ m_type = ShownAfter(ver_call).type
          /\ m_version_num.total = m_version_num.major * 10000 + m_version_num.minor * 100
                                   + m_version_num.patch
    /\ (rd.pc = "done" /\ ~rd.overlap) =>
          [num |-> rd.num, str |-> rd.str, type |-> rd.type] = ShownAfter(rd.call)

\* Two threads have called set with different arguments, one of them while
\* the other held the lock; both have returned, and a reader that ran during
\* the calls has read a numeric version and a type of different calls.
C31_Witness ==
    /\ ~Setting
    /\ \E t, u \in Threads : /\ vs_arg[t].contended
                             /\ vs_arg[u].version # 0
                             /\ vs_arg[u].version # vs_arg[t].version
    /\ rd.pc = "done"
    /\ rd.overlap
    /\ \A c \in SetCalls : rd.num # Decompose(c[1]) \/ rd.type # TypeOf(c[2])

\* C33: for a boolean, a count and a string, from_string accepts the text
\* that to_string gives for a value and yields that value.
C33_RoundTrip == conv_call.param # "none" => conv_call.valid /\ conv_call.same

\* A string that begins with a double quote and ends with a single quote has
\* been written and read back.
C33_Witness ==
    /\ conv_call.param = "ParamString"
    /\ Len(conv_call.text) > 3
    /\ conv_call.text[2] = DQ
    /\ conv_call.text[Len(conv_call.text) - 1] = SQ
    /\ conv_call.same

\* C32: validate returns true exactly when every supplied name is declared,
\* every supplied value passes the validate of its parameter and every
\* mandatory parameter is supplied; the specification is as it was.
C32_ValidateIff ==
    val_call.op = "validate" =>
        /\ val_call.rval =
              (/\ DOMAIN val_call.params \subseteq DOMAIN val_call.spec
               /\ \A n \in DOMAIN val_call.params \cap DOMAIN val_call.spec :
                      ParamValidate(val_call.spec[n].type, val_call.params[n])
               /\ \A n \in DOMAIN val_call.spec :
                      val_call.spec[n].kind = MANDATORY => n \in DOMAIN val_call.params)
        /\ m_params = val_call.spec

\* validate has returned false for valid values of declared parameters,
\* because a mandatory parameter was not supplied.
C32_Witness ==
    /\ val_call.op = "validate"
    /\ ~val_call.rval
    /\ DOMAIN val_call.params # {}
    /\ DOMAIN val_call.params \subseteq DOMAIN val_call.spec
    /\ \A n \in DOMAIN val_call.params : ParamValidate(val_call.spec[n].type, val_call.params[n])
    /\ \E n \in DOMAIN val_call.spec : val_call.spec[n].kind = MANDATORY


\* C34: on a users table, once the calls made have returned, n_entries is
\* the number of users stored, n_adds and n_deletes are the numbers of
\* users_add and users_delete calls made, adding a name that is present
\* returns 0 and changes neither the table nor n_entries, and deleting a
\* name that is absent returns 0 and changes neither.
C34_Original ==
    users = "allocated" =>
        /\ stats.n_entries = Cardinality(DOMAIN users_data)
        /\ stats.n_adds = users_made.adds
        /\ stats.n_deletes = users_made.deletes
        /\ (users_call.op = "add" /\ users_call.user \in DOMAIN users_call.old_data) =>
              /\ users_call.rval = 0
              /\ users_data = users_call.old_data
              /\ stats.n_entries = users_call.old_entries
        /\ (users_call.op = "delete" /\ users_call.user \notin DOMAIN users_call.old_data) =>
              /\ users_call.rval = 0
              /\ users_data = users_call.old_data
              /\ stats.n_entries = users_call.old_entries

====
